---- MODULE Spec2Model ----
(***************************************************************************)
(* A model of alphaconf's configuration engine: the Configuration facade   *)
(* (alphaconf/internal/configuration.py), the source chain of Application  *)
(* (alphaconf/internal/application.py) and the OmegaConf operations they    *)
(* call (create, merge, unsafe_merge, select, `in`).                        *)
(*                                                                         *)
(* Strings are sequences of tokens: a token is a word without separator,   *)
(* or one of the separators "." and "_".  'a.b' is <<"a", ".", "b">> and    *)
(* 'my_test' is <<"my", "_", "test">>, so that split, join and the test     *)
(* '.' in k are computed, not looked up.                                    *)
(*                                                                         *)
(* A tree node is a tagged record: V(s) a scalar (s = "???" the mandatory  *)
(* marker, s = "null" None), M(f) a mapping (f a function from key strings *)
(* to nodes), L(q) a list.  TypeErr stands for the TypeError OmegaConf      *)
(* raises when a mapping is merged with a list.                            *)
(***************************************************************************)
EXTENDS Naturals, Sequences, FiniteSets, TLC

VARIABLES
    mIn,        \* merge scenario: the trees <<A, B, C>> to merge
    mStep,      \* Configuration merged one _merge call per tree: [c, n, raised]
    mOnce,      \* Configuration merged by one _merge call: [c, done, raised]
    fIn,        \* _find_name scenario: [parts, conf]
    fOut,       \* _find_name scenario: the returned name, or NoResult
    alive,      \* the Configuration objects that exist
    c,          \* Configuration.c of each object
    helpersRef, \* Configuration.helpers of each object: the cell of its dict
    typePathRef, \* Configuration.__type_path of each object: the cell of its dict
    heap,       \* the dict held by each cell
    type_value, \* Configuration.__type_value of each object
    lastSetup,  \* the latest setup_configuration call, with the conf of the caller
    call,       \* the latest call and its outcome
    nops,       \* the number of calls that change a Configuration
    appIn,      \* Application scenario: [defaults, files, environ, arguments]
    app,        \* Application scenario: [pc, parsed, c] of setup_configuration
    eIn,        \* from_environ scenario, [conf, environ, prefixes]
    eOut        \* from_environ scenario, the returned fragment, or EnvNoResult

mergeVars == <<mIn, mStep, mOnce>>
findVars == <<fIn, fOut>>
confVars == <<alive, c, helpersRef, typePathRef, heap, type_value, lastSetup, call, nops>>
appVars == <<appIn, app>>
envVars == <<eIn, eOut>>
vars == <<mIn, mStep, mOnce, fIn, fOut,
          alive, c, helpersRef, typePathRef, heap, type_value, lastSetup, call, nops,
          appIn, app,
          eIn, eOut>>

----------------------------------------------------------------------------
(* Strings *)

DOT == "."
USC == "_"

W(a) == <<a>>
Dot(s, t) == s \o <<DOT>> \o t
Und(s, t) == s \o <<USC>> \o t
EmptyStr == <<>>

\* '.' in k
HasDot(k) == \E i \in 1..Len(k) : k[i] = DOT

\* index of the first sep in s, 0 when there is none
FirstSep(s, sep) ==
    IF \E i \in 1..Len(s) : s[i] = sep
    THEN CHOOSE i \in 1..Len(s) : s[i] = sep /\ \A j \in 1..(i - 1) : s[j] # sep
    ELSE 0

\* s.split(sep): ''.split('.') is ['']
RECURSIVE Split(_, _)
Split(s, sep) ==
    LET i == FirstSep(s, sep)
    IN  IF i = 0 THEN <<s>>
        ELSE <<SubSeq(s, 1, i - 1)>> \o Split(SubSeq(s, i + 1, Len(s)), sep)

\* sep.join(parts)
RECURSIVE Join(_, _)
Join(parts, sep) ==
    IF Len(parts) = 0 THEN EmptyStr
    ELSE IF Len(parts) = 1 THEN parts[1]
    ELSE parts[1] \o <<sep>> \o Join(Tail(parts), sep)

----------------------------------------------------------------------------
(* Tree nodes *)

V(s) == [k |-> "val", v |-> s]
M(f) == [k |-> "map", m |-> f]
L(q) == [k |-> "list", l |-> q]
TypeErr == [k |-> "err", e |-> "TypeError"]

MANDATORY == V("???")
NONE == V("null")
EmptyMap == M(<<>>)

IsMap(t) == t.k = "map"
IsList(t) == t.k = "list"
IsVal(t) == t.k = "val"
IsErr(t) == t.k = "err"
IsContainer(t) == IsMap(t) \/ IsList(t)
Keys(t) == DOMAIN t.m

----------------------------------------------------------------------------
(* OmegaConf.merge, as Configuration._merge calls it *)

RECURSIVE MergeNode(_, _)
RECURSIVE MergeMap(_, _)

\* a merge of nodes that extends a list by the later list
MergeNode_ConcatLists(d, s) ==
    IF IsContainer(d) /\ IsContainer(s)
    THEN IF IsMap(d) /\ IsMap(s) THEN MergeMap(d, s)
         ELSE IF IsList(d) /\ IsList(s) THEN L(d.l \o s.l)
         ELSE TypeErr
    ELSE IF s = MANDATORY THEN d
    ELSE s

\* BaseContainer._map_merge for one key that both dest and src hold: two
\* mappings merge recursively, a list replaces a list, a mapping and a list
\* raise TypeError; a src value '???' never replaces what dest holds; any
\* other src node replaces the dest node.
MergeNode(d, s) ==
    IF IsContainer(d) /\ IsContainer(s)
    THEN IF IsMap(d) /\ IsMap(s) THEN MergeMap(d, s)
         ELSE IF IsList(d) /\ IsList(s) THEN s
         ELSE TypeErr
    ELSE IF s = MANDATORY THEN d
    ELSE s

\* BaseContainer._map_merge(dest, src): src's keys are merged into dest's
MergeMap(d, s) ==
    LET f == [key \in Keys(d) \cup Keys(s) |->
                IF key \notin Keys(s) THEN d.m[key]
                ELSE IF key \notin Keys(d) THEN s.m[key]
                ELSE MergeNode(d.m[key], s.m[key])]
    IN  IF \E key \in DOMAIN f : IsErr(f[key]) THEN TypeErr ELSE M(f)

\* OmegaConf.merge(*configs): a copy of configs[0] with each later one merged
\* in, left to right
RECURSIVE OmegaConf_merge(_)
OmegaConf_merge(configs) ==
    IF Len(configs) = 1 THEN configs[1]
    ELSE LET init == OmegaConf_merge(SubSeq(configs, 1, Len(configs) - 1))
         IN  IF IsErr(init) THEN TypeErr
             ELSE MergeMap(init, configs[Len(configs)])

\* a _merge that forgets the current tree: OmegaConf.merge(*configs)
Configuration_merge_DropsSelf(self_c, configs) == OmegaConf_merge(configs)

\* Configuration._merge(configs): the new self.c, or TypeErr when the merge
\* raises (self.c is then not assigned)
Configuration_merge(self_c, configs) == OmegaConf_merge(<<self_c>> \o configs)

----------------------------------------------------------------------------
(* Merge scenario: a fresh Configuration receives the trees of mIn, once in  *)
(* one _merge call per tree and once in a single _merge call.                *)

a == W("a")
b == W("b")
x == W("x")
y == W("y")

MergeTrees ==
    { EmptyMap,
      M(a :> V("1")),
      M(a :> V("2") @@ b :> V("1")),
      M(a :> MANDATORY),
      M(a :> M(x :> V("1"))),
      M(a :> M(x :> V("2") @@ y :> V("2")) @@ b :> MANDATORY),
      M(a :> L(<<V("1")>>) @@ b :> M(x :> V("1"))),
      M(a :> L(<<V("2"), V("3")>>) @@ b :> M(y :> V("1"))) }

NTrees == 3

MergeIdle == [c |-> EmptyMap, n |-> 0, raised |-> FALSE]
OnceIdle == [c |-> EmptyMap, done |-> FALSE, raised |-> FALSE]
NoResult == <<"no result">>
SetupIdle == [cfg |-> "none"]
CallIdle == [op |-> "none"]
AppIdle == [pc |-> "none"]
EnvIdle == [prefixes |-> {}]
EnvNoResult == [k |-> "no result"]
FindIdle == [parts |-> <<>>, conf |-> EmptyMap]

InitMerge ==
    /\ mIn \in [1..NTrees -> MergeTrees]
    /\ mStep = MergeIdle
    /\ mOnce = OnceIdle
    /\ fIn = FindIdle
    /\ fOut = NoResult
    /\ alive = {}
    /\ c = <<>>
    /\ helpersRef = <<>>
    /\ typePathRef = <<>>
    /\ heap = <<>>
    /\ type_value = <<>>
    /\ lastSetup = SetupIdle
    /\ call = CallIdle
    /\ nops = 0
    /\ eIn = EnvIdle
    /\ eOut = EnvNoResult
    /\ appIn = AppIdle
    /\ app = AppIdle

\* one more tree of mIn is merged: self._merge([mIn[n + 1]])
MergeStep ==
    /\ mStep.n < NTrees
    /\ ~mStep.raised
    /\ LET r == Configuration_merge(mStep.c, <<mIn[mStep.n + 1]>>)
       IN  mStep' = IF IsErr(r)
                    THEN [mStep EXCEPT !.raised = TRUE]
                    ELSE [mStep EXCEPT !.c = r, !.n = mStep.n + 1]
    /\ UNCHANGED <<mIn, mOnce, findVars, confVars, appVars, envVars>>

\* all the trees of mIn are merged at once: self._merge(mIn)
MergeOnce ==
    /\ ~mOnce.done
    /\ LET r == Configuration_merge(mOnce.c, mIn)
       IN  mOnce' = IF IsErr(r)
                    THEN [mOnce EXCEPT !.done = TRUE, !.raised = TRUE]
                    ELSE [mOnce EXCEPT !.done = TRUE, !.c = r]
    /\ UNCHANGED <<mIn, mStep, findVars, confVars, appVars, envVars>>

NextMerge == MergeStep \/ MergeOnce

SpecMerge == InitMerge /\ [][NextMerge]_vars

\* the trees A, B, C of the scenario
TreeA == mIn[1]
TreeB == mIn[2]
TreeC == mIn[3]

MixedContainers(va, vb) == (IsMap(va) /\ IsList(vb)) \/ (IsList(va) /\ IsMap(vb))

\* the merge of B into A was attempted
SecondMergeTried == mStep.n = 2 \/ (mStep.n = 1 /\ mStep.raised)

----------------------------------------------------------------------------
(* Configuration._find_name *)

\* name in conf, for a DictConfig: the key is there and its value is not '???'
Contains(conf, name) == name \in Keys(conf) /\ conf.m[name] # MANDATORY

\* parts[next_offset:]
Rest(parts, next_offset) == SubSeq(parts, next_offset + 1, Len(parts))

RECURSIVE find_name(_, _)
RECURSIVE find_name_loop(_, _, _, _)
RECURSIVE find_name_loop_Longest(_, _, _, _)

\* a loop that returns at the last matching name instead of the first
find_name_loop_Longest(parts, conf, next_offset, name) ==
    LET hits == {i \in next_offset..Len(parts) :
                    Contains(conf, Join(SubSeq(parts, 1, i), USC))}
    IN  IF hits = {} THEN Join(parts, DOT)
        ELSE LET i == CHOOSE i \in hits : \A j \in hits : j <= i
                 nm == Join(SubSeq(parts, 1, i), USC)
             IN  IF i = Len(parts) THEN nm
                 ELSE IF IsMap(conf.m[nm])
                 THEN nm \o <<DOT>> \o find_name(Rest(parts, i), conf.m[nm])
                 ELSE Join(<<nm>> \o Rest(parts, i), DOT)

\* the for loop of _find_name at next_offset, name holding the parts before
find_name_loop(parts, conf, next_offset, name) ==
    IF next_offset > Len(parts) THEN Join(parts, DOT)
    ELSE LET nm == (IF name # EmptyStr THEN name \o <<USC>> ELSE name)
                      \o parts[next_offset]
         IN  IF Contains(conf, nm)
             THEN IF next_offset = Len(parts) THEN nm
                  ELSE IF IsMap(conf.m[nm])
                  THEN nm \o <<DOT>> \o find_name(Rest(parts, next_offset), conf.m[nm])
                  ELSE Join(<<nm>> \o Rest(parts, next_offset), DOT)
             ELSE find_name_loop(parts, conf, next_offset + 1, nm)

\* Configuration._find_name(parts, conf)
find_name(parts, conf) ==
    IF Len(parts) < 2
    THEN IF Len(parts) = 0 THEN EmptyStr ELSE parts[1]
    ELSE find_name_loop(parts, conf, 1, EmptyStr)

my == W("my")
test == W("test")
my_test == Und(my, test)
test_test == Und(test, test)

FindTrees ==
    { EmptyMap,
      M(a :> M(b :> V("1"))
          @@ my_test :> M(a :> V("2"))
          @@ test_test :> M(x :> V("3") @@ my_test :> V("4"))),
      M(my :> M(test :> V("1")) @@ my_test :> M(a :> V("2"))),
      M(my :> V("1") @@ my_test :> M(a :> V("2"))),
      M(my_test :> MANDATORY @@ a :> M(Und(a, a) :> V("1") @@ a :> MANDATORY)),
      M(test :> M(Und(test, my) :> M(test :> V("1")))
          @@ test_test :> M(my_test :> V("4"))) }

FindWords == {a, my, test}
MaxParts == 4

FindParts == UNION {[1..n -> FindWords] : n \in 0..MaxParts}

InitFind ==
    /\ fIn \in [parts : FindParts, conf : FindTrees]
    /\ fOut = NoResult
    /\ mIn = [i \in 1..NTrees |-> EmptyMap]
    /\ mStep = MergeIdle
    /\ mOnce = OnceIdle
    /\ alive = {}
    /\ c = <<>>
    /\ helpersRef = <<>>
    /\ typePathRef = <<>>
    /\ heap = <<>>
    /\ type_value = <<>>
    /\ lastSetup = SetupIdle
    /\ call = CallIdle
    /\ nops = 0
    /\ eIn = EnvIdle
    /\ eOut = EnvNoResult
    /\ appIn = AppIdle
    /\ app = AppIdle

\* name = Configuration._find_name(parts, conf)
FindName ==
    /\ fOut = NoResult
    /\ fOut' = find_name(fIn.parts, fIn.conf)
    /\ UNCHANGED <<fIn, mergeVars, confVars, appVars, envVars>>

NextFind == FindName

SpecFind == InitFind /\ [][NextFind]_vars

\* the lengths n of the runs parts[1..n] whose '_'-join is a key of conf that
\* `in` finds (a key that holds '???' is not found)
MatchingRuns(parts, conf) ==
    IF IsMap(conf)
    THEN {n \in 1..Len(parts) : Contains(conf, Join(SubSeq(parts, 1, n), USC))}
    ELSE {}

\* the name built by taking, at each level, the run of leading parts that
\* pick(runs) selects, and the '.'-join of the parts left when none matches
RECURSIVE NameByRuns(_, _, _)
NameByRuns(parts, conf, longest) ==
    LET runs == MatchingRuns(parts, conf)
    IN  IF runs = {} THEN Join(parts, DOT)
        ELSE LET n == IF longest
                      THEN CHOOSE n \in runs : \A j \in runs : j <= n
                      ELSE CHOOSE n \in runs : \A j \in runs : n <= j
                 head == Join(SubSeq(parts, 1, n), USC)
             IN  IF n = Len(parts) THEN head
                 ELSE head \o <<DOT>> \o NameByRuns(Rest(parts, n), conf.m[head], longest)

----------------------------------------------------------------------------
(* OmegaConf.select, OmegaConf.to_object and the conversion to a schema type *)

NotFound == [k |-> "notfound"]
raise_on_missing == [k |-> "raise_on_missing"]
NoType == [k |-> "NoneType"]

\* what a call gives back: a value, or an exception naming a key
Return(value) == [r |-> "return", v |-> value]
Raise(exc, key) == [r |-> "raise", exc |-> exc, key |-> key]

\* the node reached from node by the keys of parts, NotFound when a key is
\* not there or the node is no mapping
RECURSIVE SelectParts(_, _)
SelectParts(node, parts) ==
    IF Len(parts) = 0 THEN node
    ELSE IF IsMap(node) /\ parts[1] \in Keys(node)
    THEN SelectParts(node.m[parts[1]], Tail(parts))
    ELSE NotFound

\* OmegaConf.select(cfg, key, default=raise_on_missing): the default stands
\* for a node that is not there and for a node that holds '???'
OmegaConf_select(cfg, key) ==
    LET node == IF key = EmptyStr THEN cfg ELSE SelectParts(cfg, Split(key, DOT))
    IN  IF node = MANDATORY THEN NotFound ELSE node

\* the full keys, below prefix, of the nodes of a mapping that hold '???'
RECURSIVE MissingKeys(_, _)
MissingKeys(node, prefix) ==
    IF node = MANDATORY THEN {prefix}
    ELSE IF IsMap(node)
    THEN UNION {MissingKeys(node.m[key],
                            IF prefix = EmptyStr THEN key ELSE Dot(prefix, key)) :
                   key \in Keys(node)}
    ELSE {}

\* the schema type TypedConfig (a pydantic model) with two of its fields,
\* x_num: int = 0 and x_name: str = 'me': name, default
x_num == Und(x, W("num"))
x_name == Und(x, W("name"))
TypedConfig == [k |-> "type", name |-> "TypedConfig"]
Types == {TypedConfig}
model_fields == (x_num :> V("0")) @@ (x_name :> V("me"))
\* the descriptions of the fields that have one
field_description == (x_name :> "Some name")
IntValues == {"0", "1", "2", "3"}
StrValues == {"me", "v", "x"}

\* pydantic.fields._Unset, the default of a field declared without one
Unset == [k |-> "Unset"]

\* the schema type Person: first_name: str and last_name: str, both required
Person == [k |-> "type", name |-> "Person"]
first_name == Und(W("first"), W("name"))
last_name == Und(W("last"), W("name"))

\* a schema type with a field that is not required and has no default,
\* tags: list = Field(default_factory=list, title='Tags')
Tagged == [k |-> "type", name |-> "Tagged"]
tags == W("tags")

SchemaTypes == {TypedConfig, Person, Tagged}

\* a pydantic FieldInfo: default, is_required(), description, title, and the
\* values the annotation accepts
FieldInfo(default, required, description, title, accepts) ==
    [default |-> default, required |-> required, description |-> description,
     title |-> title, accepts |-> accepts]

\* type.model_fields
model_fields_of(type) ==
    IF type = TypedConfig
    THEN [field \in DOMAIN model_fields |->
            FieldInfo(model_fields[field], FALSE,
                      IF field \in DOMAIN field_description
                      THEN field_description[field] ELSE "",
                      "",
                      IF field = x_num THEN "int" ELSE "str")]
    ELSE IF type = Person
    THEN (first_name :> FieldInfo(Unset, TRUE, "", "", "str"))
         @@ (last_name :> FieldInfo(Unset, TRUE, "", "", "str"))
    ELSE (tags :> FieldInfo(Unset, FALSE, "", "Tags", "list"))

\* whether pydantic accepts value for a field with the given annotation
FieldAccepts(accepts, value) ==
    IF accepts = "list" THEN IsList(value)
    ELSE /\ IsVal(value)
         /\ value.v \in (IF accepts = "int" THEN IntValues ELSE StrValues)

\* T.model_validate(value): the instance, with the default of each field
\* that value lacks; a required field may not be missing
model_validate(type, value) ==
    LET fields == model_fields_of(type)
    IN  IF IsMap(value)
           /\ \A field \in DOMAIN fields :
                 IF field \in Keys(value)
                 THEN FieldAccepts(fields[field].accepts, value.m[field])
                 ELSE ~fields[field].required
        THEN Return([k |-> "instance",
                     type |-> type,
                     fields |-> [field \in DOMAIN fields |->
                                   IF field \in Keys(value) THEN value.m[field]
                                   ELSE IF fields[field].default # Unset
                                   THEN fields[field].default
                                   ELSE L(<<>>)]])
        ELSE Raise("ValidationError", EmptyStr)

\* the builtin type int
IntType == [k |-> "type", name |-> "int"]

\* convert_to_type(value, type): a pydantic model type validates the value;
\* for int the value is returned when it is an int and validated by a
\* pydantic TypeAdapter otherwise
convert_to_type(value, type) ==
    IF type = IntType
    THEN IF IsVal(value) /\ value.v \in IntValues
         THEN Return(value) ELSE Raise("ValidationError", EmptyStr)
    ELSE model_validate(type, value)

\* a get that ignores the default given for a missing value
Configuration_get_IgnoresDefault(self_c, key, type, default) ==
    LET value == OmegaConf_select(self_c, key)
    IN  IF value = NotFound
        THEN Raise("KeyError", key)
        ELSE IF IsContainer(value) /\ MissingKeys(value, key) # {}
        THEN Raise("MissingMandatoryValue", CHOOSE mk \in MissingKeys(value, key) : TRUE)
        ELSE IF type # NoType THEN convert_to_type(value, type)
        ELSE Return(value)

\* a get that converts the default it returns for a missing value
Configuration_get_ConvertsDefault(self_c, key, type, default) ==
    LET value == OmegaConf_select(self_c, key)
    IN  IF value = NotFound
        THEN IF default = raise_on_missing THEN Raise("KeyError", key)
             ELSE IF type # NoType THEN convert_to_type(default, type)
             ELSE Return(default)
        ELSE IF IsContainer(value) /\ MissingKeys(value, key) # {}
        THEN Raise("MissingMandatoryValue", CHOOSE mk \in MissingKeys(value, key) : TRUE)
        ELSE IF type # NoType /\ ~(value = NONE /\ default = NONE)
        THEN convert_to_type(value, type)
        ELSE Return(value)

\* Configuration.get(key, type, default=default) for a str key.  A value
\* selected from the tree is never an instance of a schema type, and
\* OmegaConf.to_object raises for a container that holds '???' somewhere.
\* A value that is the default object (None) is not converted.
Configuration_get(self_c, key, type, default) ==
    LET value == OmegaConf_select(self_c, key)
    IN  IF value = NotFound
        THEN IF default = raise_on_missing
             THEN Raise("KeyError", key) ELSE Return(default)
        ELSE IF IsContainer(value) /\ MissingKeys(value, key) # {}
        THEN Raise("MissingMandatoryValue", CHOOSE mk \in MissingKeys(value, key) : TRUE)
        ELSE IF type # NoType /\ ~(value = NONE /\ default = NONE)
        THEN convert_to_type(value, type)
        ELSE Return(value)

\* the states of Configuration.__type_value: the dict __init__ creates, or the
\* instance that __get_type assigns to the attribute itself
TypeValueDict(d) == [kind |-> "dict", d |-> d]
TypeValueInstance(v) == [kind |-> "instance", v |-> v]

\* the entries of Configuration.__type_path
PathAbsent == [kind |-> "absent"]
PathNone == [kind |-> "None"]
PathOf(prefix) == [kind |-> "path", p |-> prefix]

\* Configuration.__get_type(key, default=default): the result and the new
\* __type_value.  tv.get and tv.pop exist only while tv is a dict.
Configuration_get_type(tv, tp, self_c, key, default) ==
    IF tv.kind # "dict"
    THEN [out |-> Raise("AttributeError", W("get")), tv |-> tv]
    ELSE IF key \in DOMAIN tv.d
    THEN [out |-> Return(tv.d[key]), tv |-> tv]
    ELSE IF tp[key].kind # "path"
    THEN [out |-> IF default = raise_on_missing
                  THEN Raise("KeyError", W("type")) ELSE Return(default),
          tv |-> tv]
    ELSE LET got == Configuration_get(self_c, tp[key].p, key, raise_on_missing)
         IN  IF got.r = "return"
             THEN [out |-> got, tv |-> TypeValueInstance(got.v)]
             ELSE IF got.exc = "KeyError" /\ default # raise_on_missing
             THEN [out |-> Return(default), tv |-> tv]
             ELSE [out |-> got, tv |-> tv]

----------------------------------------------------------------------------
(* Configuration.setup_configuration *)

\* the elements of a set in a sequence.  The keys of a mapping are met in
\* the order of the dict; the mappings given to the model hold no two dotted
\* keys whose expansions meet at a key, so that the order chosen here does
\* not show in a result.
RECURSIVE SetToSeq(_)
SetToSeq(S) ==
    IF S = {} THEN <<>>
    ELSE LET e == CHOOSE e \in S : TRUE IN <<e>> \o SetToSeq(S \ {e})

\* Configuration.__add_prefix(config, prefix): {part: config} for each part
\* of prefix, the last part innermost
RECURSIVE AddPrefixParts(_, _)
AddPrefixParts(config, parts) ==
    IF Len(parts) = 0 THEN config
    ELSE M(parts[1] :> AddPrefixParts(config, Tail(parts)))

add_prefix(config, prefix) == AddPrefixParts(config, Split(prefix, DOT))

RECURSIVE prepare_config(_)
RECURSIVE prepare_dictconfig(_, _)

\* what the loop of __prepare_dictconfig leaves in obj before the merge of
\* the sub configs: the dotted keys are popped, and with recursive the
\* mappings below the other keys are prepared in place
PoppedDictconfig(obj, recursive) ==
    M([key \in {key \in Keys(obj) : ~HasDot(key)} |->
          IF recursive THEN prepare_config(obj.m[key]) ELSE obj.m[key]])

\* Configuration.__prepare_dictconfig(obj, path, recursive): each dotted key
\* is popped and its value, under the prefix chain of the key, is merged
\* back by OmegaConf.unsafe_merge(obj, *sub_configs).  pop and unsafe_merge
\* act on obj itself: the value returned is also what obj holds afterwards.
prepare_dictconfig(obj, recursive) ==
    LET dotted == SetToSeq({key \in Keys(obj) : HasDot(key)})
        sub_configs == [i \in 1..Len(dotted) |->
                          add_prefix(IF recursive
                                     THEN prepare_config(obj.m[dotted[i]])
                                     ELSE obj.m[dotted[i]],
                                     dotted[i])]
    IN  IF Len(dotted) = 0 THEN PoppedDictconfig(obj, recursive)
        ELSE OmegaConf_merge(<<PoppedDictconfig(obj, recursive)>> \o sub_configs)

\* Configuration.__prepare_config(obj, path) for a mapping: the values are
\* prepared, and a DictConfig created from the result is prepared without
\* recursion.  The value is the same for a dict and for a DictConfig; a list
\* or a scalar is returned as it is.
prepare_config(obj) ==
    IF IsMap(obj)
    THEN prepare_dictconfig(M([key \in Keys(obj) |-> prepare_config(obj.m[key])]), FALSE)
    ELSE obj

\* Configuration.__prepare_pydantic(obj, path) for a model type: the
\* default of a field that has one, '???' for a required field, None for
\* any other field
prepare_pydantic(type) ==
    LET fields == model_fields_of(type)
    IN  M([field \in DOMAIN fields |->
             IF fields[field].default # Unset THEN fields[field].default
             ELSE IF fields[field].required THEN MANDATORY
             ELSE NONE])

\* field.description or field.title
FieldDesc(info) == IF info.description # "" THEN info.description ELSE info.title

\* the helpers __prepare_pydantic adds: the description of each field that
\* has one, at path + field name
PydanticHelpers(type, path) ==
    LET fields == model_fields_of(type)
        described == {field \in DOMAIN fields : FieldDesc(fields[field]) # ""}
    IN  [key \in {path \o field : field \in described} |->
            FieldDesc(fields[CHOOSE field \in described : path \o field = key])]

\* prefix + "." unless prefix is empty
PrefixPath(prefix) == IF prefix = EmptyStr THEN EmptyStr ELSE prefix \o <<DOT>>

\* a dict that is replaced by new
Update_Replace(old, new) == new

\* dict.update: the entries of new replace those of old
Update(old, new) ==
    [key \in DOMAIN old \cup DOMAIN new |->
        IF key \in DOMAIN new THEN new[key] ELSE old[key]]

\* the conf object of the caller after the call: a DictConfig is prepared in
\* place (it is obj in __prepare_dictconfig); a dict is first copied by
\* OmegaConf.create
ConfAfter(kind, conf) ==
    IF kind = "DictConfig"
    THEN LET done == prepare_dictconfig(conf, TRUE)
         IN  IF IsErr(done) THEN PoppedDictconfig(conf, TRUE) ELSE done
    ELSE conf

\* self.__type_path[conf_type] = None if conf_type in self.__type_path else prefix
NewTypePath(tp, type, prefix) ==
    [tp EXCEPT ![type] = IF tp[type].kind = "absent" THEN PathOf(prefix) ELSE PathNone]

\* Configuration.setup_configuration(conf, helpers, prefix=prefix) on the
\* Configuration state st = [c, helpers, tp, tv]; in = [conf, kind, prefix,
\* helpers], kind one of "dict", "DictConfig", "type" (conf then names the
\* type).  Gives the new state, the conf of the caller and the outcome.
setup_configuration(st, in) ==
    LET isType == in.kind = "type"
        tp1 == IF isType THEN NewTypePath(st.tp, in.conf, in.prefix) ELSE st.tp
        path == PrefixPath(in.prefix)
        prepared == IF in.kind = "DictConfig" THEN prepare_dictconfig(in.conf, TRUE)
                    ELSE IF isType THEN prepare_config(prepare_pydantic(in.conf))
                    ELSE prepare_config(in.conf)
        helpers1 == IF isType THEN Update(st.helpers, PydanticHelpers(in.conf, path))
                    ELSE st.helpers
        config == IF in.prefix # EmptyStr /\ IsMap(prepared)
                  THEN add_prefix(prepared, in.prefix) ELSE prepared
        given == [key \in {path \o hk : hk \in DOMAIN in.helpers} |->
                    in.helpers[CHOOSE hk \in DOMAIN in.helpers : path \o hk = key]]
        merged == IF IsMap(config) THEN Configuration_merge(st.c, <<config>>) ELSE TypeErr
        conf1 == IF isType THEN in.conf ELSE ConfAfter(in.kind, in.conf)
    IN  IF isType /\ st.tv.kind # "dict"
        THEN [c |-> st.c, helpers |-> st.helpers, tp |-> tp1, tv |-> st.tv,
              conf |-> in.conf, out |-> Raise("AttributeError", W("pop"))]
        ELSE LET tv1 == IF isType
                        THEN TypeValueDict([t \in DOMAIN st.tv.d \ {in.conf} |-> st.tv.d[t]])
                        ELSE st.tv
             IN  IF IsErr(merged)
                 THEN [c |-> st.c, helpers |-> helpers1, tp |-> tp1, tv |-> tv1,
                       conf |-> conf1, out |-> Raise("TypeError", EmptyStr)]
                 ELSE [c |-> merged, helpers |-> Update(helpers1, given), tp |-> tp1,
                       tv |-> tv1, conf |-> conf1, out |-> Return(NONE)]

----------------------------------------------------------------------------
(* Configuration objects: a parent P and a child K created with parent=P *)

Cfgs == {"P", "K"}
MaxOps == 3

req == W("req")
tPrefix == W("t")
c_d == Dot(W("c"), W("d"))
a_b == Dot(a, b)

\* the cells of the dicts: helpers and __type_path of P, then of K
HelpersCell == [cfg \in Cfgs |-> IF cfg = "P" THEN 1 ELSE 3]
TypePathCell == [cfg \in Cfgs |-> IF cfg = "P" THEN 2 ELSE 4]
NoTypePath == [type \in Types |-> PathAbsent]
NoHelpers == <<>>

\* copy.copy(dict): a new dict, held by the cell fresh, with the entries of
\* the dict of cell obj
copy_copy_Alias(obj, fresh) == obj

copy_copy(obj, fresh) == fresh

\* the arguments of the setup_configuration calls
SetupInputs ==
    { [conf |-> M(req :> MANDATORY), kind |-> "dict", prefix |-> EmptyStr,
       helpers |-> NoHelpers],
      [conf |-> M(req :> V("v")), kind |-> "dict", prefix |-> EmptyStr,
       helpers |-> (req :> "Required")],
      [conf |-> TypedConfig, kind |-> "type", prefix |-> EmptyStr, helpers |-> NoHelpers],
      [conf |-> TypedConfig, kind |-> "type", prefix |-> tPrefix, helpers |-> NoHelpers],
      [conf |-> M(x_num :> V("1")), kind |-> "dict", prefix |-> EmptyStr,
       helpers |-> NoHelpers],
      [conf |-> M(a_b :> M(c_d :> V("1"))), kind |-> "dict", prefix |-> EmptyStr,
       helpers |-> NoHelpers],
      [conf |-> M(a_b :> M(c_d :> V("1"))), kind |-> "DictConfig",
       prefix |-> EmptyStr, helpers |-> NoHelpers] }

\* the keys and defaults of the get calls
GetKeys == {req}
GetDefaults == {raise_on_missing, V("x")}
HelperKeys == {req}
HelperTexts == {"Other"}

InitConf ==
    /\ alive = {"P"}
    /\ c = [cfg \in Cfgs |-> EmptyMap]
    /\ helpersRef = HelpersCell
    /\ typePathRef = TypePathCell
    /\ heap = [cell \in 1..4 |-> IF cell \in {2, 4} THEN NoTypePath ELSE NoHelpers]
    /\ type_value = [cfg \in Cfgs |-> TypeValueDict(<<>>)]
    /\ lastSetup = SetupIdle
    /\ call = CallIdle
    /\ nops = 0
    /\ eIn = EnvIdle
    /\ eOut = EnvNoResult
    /\ appIn = AppIdle
    /\ app = AppIdle
    /\ mIn = [i \in 1..NTrees |-> EmptyMap]
    /\ mStep = MergeIdle
    /\ mOnce = OnceIdle
    /\ fIn = FindIdle
    /\ fOut = NoResult

\* K = Configuration(parent=P)
Branch ==
    /\ "K" \notin alive
    /\ nops < MaxOps
    /\ alive' = alive \cup {"K"}
    /\ c' = [c EXCEPT !["K"] = c["P"]]
    /\ helpersRef' = [helpersRef EXCEPT
                        !["K"] = copy_copy(helpersRef["P"], HelpersCell["K"])]
    /\ typePathRef' = [typePathRef EXCEPT
                         !["K"] = copy_copy(typePathRef["P"], TypePathCell["K"])]
    /\ heap' = [heap EXCEPT ![HelpersCell["K"]] = heap[helpersRef["P"]],
                            ![TypePathCell["K"]] = heap[typePathRef["P"]]]
    /\ type_value' = [type_value EXCEPT !["K"] = TypeValueDict(<<>>)]
    /\ call' = [op |-> "branch", cfg |-> "K"]
    /\ nops' = nops + 1
    /\ UNCHANGED <<lastSetup, mergeVars, findVars, appVars, envVars>>

\* cfg.setup_configuration(in.conf, in.helpers, prefix=in.prefix)
SetupConfiguration ==
    \E cfg \in alive, in \in SetupInputs :
        LET st == [c |-> c[cfg], helpers |-> heap[helpersRef[cfg]],
                   tp |-> heap[typePathRef[cfg]], tv |-> type_value[cfg]]
            r == setup_configuration(st, in)
        IN  /\ nops < MaxOps
            /\ c' = [c EXCEPT ![cfg] = r.c]
            /\ heap' = [heap EXCEPT ![helpersRef[cfg]] = r.helpers,
                                    ![typePathRef[cfg]] = r.tp]
            /\ type_value' = [type_value EXCEPT ![cfg] = r.tv]
            /\ lastSetup' = [cfg |-> cfg, in |-> in, pre |-> c[cfg],
                             conf |-> r.conf, out |-> r.out]
            /\ call' = [op |-> "setup", cfg |-> cfg, out |-> r.out]
            /\ nops' = nops + 1
            /\ UNCHANGED <<alive, helpersRef, typePathRef, mergeVars, findVars, appVars, envVars>>

\* cfg.add_helper(key, description)
AddHelper ==
    \E cfg \in alive, key \in HelperKeys, description \in HelperTexts :
        /\ nops < MaxOps
        /\ heap' = [heap EXCEPT ![helpersRef[cfg]] =
                                   Update(heap[helpersRef[cfg]], key :> description)]
        /\ call' = [op |-> "add_helper", cfg |-> cfg]
        /\ nops' = nops + 1
        /\ UNCHANGED <<alive, c, helpersRef, typePathRef, type_value, lastSetup,
                       mergeVars, findVars, appVars, envVars>>

\* cfg.get(key, default=default) for a str key
Get ==
    \E cfg \in alive, key \in GetKeys, default \in GetDefaults :
        /\ call' = [op |-> "get", cfg |-> cfg, key |-> key, default |-> default,
                    out |-> Configuration_get(c[cfg], key, NoType, default)]
        /\ UNCHANGED <<alive, c, helpersRef, typePathRef, heap, type_value,
                       lastSetup, nops, mergeVars, findVars, appVars, envVars>>

\* cfg.get(type, default=default) for a schema type
GetType ==
    \E cfg \in alive, type \in Types, default \in GetDefaults :
        LET r == Configuration_get_type(type_value[cfg], heap[typePathRef[cfg]],
                                        c[cfg], type, default)
        IN  /\ type_value' = [type_value EXCEPT ![cfg] = r.tv]
            /\ call' = [op |-> "get_type", cfg |-> cfg, type |-> type,
                        default |-> default, out |-> r.out,
                        before |-> type_value[cfg]]
            /\ UNCHANGED <<alive, c, helpersRef, typePathRef, heap, lastSetup,
                           nops, mergeVars, findVars, appVars, envVars>>

NextConf == Branch \/ SetupConfiguration \/ AddHelper \/ Get \/ GetType

SpecConf == InitConf /\ [][NextConf]_vars

----------------------------------------------------------------------------
(* Properties of Configuration.get, the schema types, the conf of the caller
   and the child Configuration *)

\* the node at key req in the tree of cfg
ReqNode(cfg) == SelectParts(c[cfg], Split(req, DOT))

\* the latest call is cfg.get(req) with the given default
IsGetReq == call.op = "get" /\ call.key = req

\* C2: while the tree holds '???' at req, get('req') with no default raises
\* and get('req', default=x) returns x; and once a setup_configuration of
\* {'req': v}, v concrete, has returned on a tree that held '???' at req,
\* get('req') returns v.
C2_MandatoryGet ==
    IsGetReq =>
        /\ ReqNode(call.cfg) = MANDATORY =>
              IF call.default = raise_on_missing
              THEN call.out.r = "raise"
              ELSE call.out = Return(call.default)
        /\ ( /\ lastSetup.cfg = call.cfg
             /\ lastSetup.out.r = "return"
             /\ SelectParts(lastSetup.pre, Split(req, DOT)) = MANDATORY
             /\ IsMap(lastSetup.in.conf)
             /\ Keys(lastSetup.in.conf) = {req}
             /\ IsVal(lastSetup.in.conf.m[req])
             /\ lastSetup.in.conf.m[req] # MANDATORY )
           => call.out = Return(lastSetup.in.conf.m[req])

\* the tree held '???' at req, {'req': 'v'} was set up on it, and get('req')
\* with no default has returned 'v'
C2_Witness ==
    /\ IsGetReq
    /\ call.default = raise_on_missing
    /\ lastSetup.cfg = call.cfg
    /\ lastSetup.out.r = "return"
    /\ SelectParts(lastSetup.pre, Split(req, DOT)) = MANDATORY
    /\ lastSetup.in.conf = M(req :> V("v"))
    /\ call.out = Return(V("v"))

\* what get(key) raises for a key that is not in the tree
AbsentKeyError(key) == Configuration_get(EmptyMap, key, NoType, raise_on_missing)

\* C3: get of a key that holds '???', with no default, raises an error that
\* is not the error of a key absent from the tree, and the error names the
\* key.
C3_MandatoryErrorDistinct ==
    (IsGetReq /\ ReqNode(call.cfg) = MANDATORY /\ call.default = raise_on_missing)
    => /\ call.out.r = "raise"
       /\ call.out.exc # AbsentKeyError(call.key).exc
       /\ call.out.key = call.key

\* the __type_path of cfg
TypePath(cfg) == heap[typePathRef[cfg]]

\* C4: for a type registered once, get(T) gives the instance built from the
\* current tree at the path of T, whenever the tree at that path validates.
C4_GetTypeCurrent ==
    (call.op = "get_type" /\ TypePath(call.cfg)[call.type].kind = "path")
    => LET expected == Configuration_get(c[call.cfg], TypePath(call.cfg)[call.type].p,
                                         call.type, raise_on_missing)
       IN  expected.r = "return" => call.out = expected

\* C5: once a type is registered a second time its binding is None, and
\* get(T) with no default raises the KeyError of a type without path.
C5_AmbiguousTypeRaisesKeyError ==
    (call.op = "get_type" /\ call.default = raise_on_missing
       /\ TypePath(call.cfg)[call.type].kind = "None")
    => call.out.r = "raise" /\ call.out.exc = "KeyError"

\* C6: when setup_configuration(conf) has returned, the conf of the caller
\* holds what it held before the call.
C6_ConfNotMutated ==
    (lastSetup.cfg \in Cfgs /\ lastSetup.out.r = "return")
    => lastSetup.conf = lastSetup.in.conf

\* the tree, the helpers and the type bindings of cfg
View(cfg) == [c |-> c[cfg], helpers |-> heap[helpersRef[cfg]], tp |-> TypePath(cfg)]

\* C7: the child starts with the tree, helpers and type bindings of P, and a
\* setup_configuration or add_helper call on one Configuration leaves the
\* tree, helpers and type bindings of the other as they were.
C7_ChildIsolated ==
    [][ /\ call'.op = "branch" => View("K")' = View("P")' /\ View("P")' = View("P")
        /\ call'.op \in {"setup", "add_helper"} =>
              \A other \in Cfgs \ {call'.cfg} : View(other)' = View(other) ]_vars

\* the child exists, the latest call changed a Configuration, and the two
\* differ in tree, in helpers and in type bindings
C7_Witness ==
    /\ "K" \in alive
    /\ call.op \in {"setup", "add_helper"}
    /\ c["K"] # c["P"]
    /\ heap[helpersRef["K"]] # heap[helpersRef["P"]]
    /\ TypePath("K") # TypePath("P")

----------------------------------------------------------------------------
(* Application.setup_configuration: the chain of the sources *)

EQ == "="

\* the str 'key=value'
KeyValue(key, value) == key \o <<EQ>> \o value

\* str.upper and str.lower on the words of the model
UpperWord == ("a" :> "A") @@ ("b" :> "B") @@ ("x" :> "X") @@ ("y" :> "Y")
             @@ ("z" :> "Z") @@ ("h" :> "H") @@ ("application" :> "APPLICATION")
             @@ ("my" :> "MY") @@ ("test" :> "TEST") @@ ("pfx" :> "PFX")
             @@ ("testmyenv" :> "TESTMYENV") @@ ("xxx" :> "XXX")
             @@ ("base" :> "BASE") @@ ("python" :> "PYTHON")
upper(s) == [i \in 1..Len(s) |-> IF s[i] \in DOMAIN UpperWord THEN UpperWord[s[i]] ELSE s[i]]
lower(s) ==
    [i \in 1..Len(s) |->
        IF \E w \in DOMAIN UpperWord : UpperWord[w] = s[i]
        THEN CHOOSE w \in DOMAIN UpperWord : UpperWord[w] = s[i]
        ELSE s[i]]

\* str.translate(str.maketrans('_', '.')) and str.strip('.')
translate(s) == [i \in 1..Len(s) |-> IF s[i] = USC THEN DOT ELSE s[i]]
RECURSIVE strip(_)
strip(s) ==
    IF Len(s) > 0 /\ s[1] = DOT THEN strip(Tail(s))
    ELSE IF Len(s) > 0 /\ s[Len(s)] = DOT THEN strip(SubSeq(s, 1, Len(s) - 1))
    ELSE s

startswith(s, prefix) ==
    Len(prefix) <= Len(s) /\ SubSeq(s, 1, Len(prefix)) = prefix

\* the node '${oc.select:key}'
Interp(key) == [k |-> "interp", key |-> key]
IsInterp(node) == node.k = "interp"

\* the value a dotlist entry gives: the text after '=' read as YAML, for a
\* text of at most one word, and the interpolation '${oc.select:base.key}'
ParseValue(text) ==
    IF text = EmptyStr THEN NONE
    ELSE IF text[1] = "${oc.select:base." /\ text[Len(text)] = "}"
    THEN Interp(<<"base", DOT>> \o SubSeq(text, 2, Len(text) - 1))
    ELSE V(text[1])

\* OmegaConf.update(conf, key, value) for a scalar value: the mappings on
\* the way are created, and a node on the way that is no mapping is replaced
RECURSIVE UpdateParts(_, _, _)
UpdateParts(node, parts, value) ==
    IF Len(parts) = 0 THEN value
    ELSE LET base == IF IsMap(node) THEN node ELSE EmptyMap
             child == IF parts[1] \in Keys(base) THEN base.m[parts[1]] ELSE EmptyMap
         IN  M([key \in Keys(base) \cup {parts[1]} |->
                   IF key = parts[1] THEN UpdateParts(child, Tail(parts), value)
                   ELSE base.m[key]])

OmegaConf_update(conf, key, value) == UpdateParts(conf, Split(key, DOT), value)

\* conf.merge_with_dotlist(dotlist): each 'key=value' is split at the first
\* '=' and set by OmegaConf.update, in the order of the list
RECURSIVE merge_with_dotlist(_, _)
merge_with_dotlist(conf, dotlist) ==
    IF Len(dotlist) = 0 THEN conf
    ELSE LET arg == dotlist[1]
             idx == FirstSep(arg, EQ)
         IN  merge_with_dotlist(
                 OmegaConf_update(conf, SubSeq(arg, 1, idx - 1),
                                  ParseValue(SubSeq(arg, idx + 1, Len(arg)))),
                 Tail(dotlist))

OmegaConf_from_dotlist(dotlist) == merge_with_dotlist(EmptyMap, dotlist)

\* a from_environ that drops the matched prefix from the name
from_environ_StripsPrefix(self_c, environ, prefixes) ==
    LET names == SetToSeq({name \in DOMAIN environ :
                              \E prefix \in prefixes : startswith(name, prefix)})
        rest(name) ==
            LET prefix == CHOOSE prefix \in prefixes : startswith(name, prefix)
            IN  SubSeq(name, Len(prefix) + 1, Len(name))
        dotlist == [i \in 1..Len(names) |->
                      KeyValue(find_name(Split(strip(translate(lower(rest(names[i])))),
                                               DOT),
                                         self_c),
                               environ[names[i]])]
    IN  merge_with_dotlist(EmptyMap, dotlist)

\* Configuration.from_environ(prefixes) on the tree self_c and the
\* environment environ (a function from names to values)
from_environ(self_c, environ, prefixes) ==
    LET names == SetToSeq({name \in DOMAIN environ :
                              \E prefix \in prefixes : startswith(name, prefix)})
        dotlist == [i \in 1..Len(names) |->
                      KeyValue(find_name(Split(strip(translate(lower(names[i]))), DOT),
                                         self_c),
                               environ[names[i]])]
    IN  merge_with_dotlist(EmptyMap, dotlist)

\* ArgumentParser.parse_args(arguments) with the actions of configure_parser:
\* a positional 'key=value' is added to ParseResult._config as a str, the
\* file of -f as the DictConfig loaded from it; a positional without '='
\* raises ArgumentError
parse_args(arguments) ==
    IF \E i \in 1..Len(arguments) :
          arguments[i].opt = "" /\ FirstSep(arguments[i].value, EQ) = 0
    THEN Raise("ArgumentError", EmptyStr)
    ELSE Return([i \in 1..Len(arguments) |->
                    IF arguments[i].opt = "-f"
                    THEN [type |-> "DictConfig", conf |-> arguments[i].file]
                    ELSE [type |-> "str", s |-> arguments[i].value]])

\* the length of the run of items of one type that config starts with
RECURSIVE RunLength(_)
RunLength(config) ==
    IF Len(config) < 2 \/ config[2].type # config[1].type THEN 1
    ELSE 1 + RunLength(Tail(config))

\* a configurations() that gives the trees of the files before the key=value
\* arguments
configurations_FilesFirst(config) ==
    LET files == SelectSeq(config, LAMBDA item : item.type = "DictConfig")
        strs == SelectSeq(config, LAMBDA item : item.type = "str")
    IN  [i \in 1..Len(files) |-> files[i].conf]
        \o (IF Len(strs) = 0 THEN <<>>
            ELSE <<OmegaConf_from_dotlist([i \in 1..Len(strs) |-> strs[i].s])>>)

\* ParseResult.configurations(): itertools.groupby by type; each DictConfig
\* is given as it is, each run of str as one OmegaConf.from_dotlist
RECURSIVE configurations(_)
configurations(config) ==
    IF Len(config) = 0 THEN <<>>
    ELSE IF config[1].type = "DictConfig"
    THEN <<config[1].conf>> \o configurations(Tail(config))
    ELSE LET n == RunLength(config)
         IN  <<OmegaConf_from_dotlist([i \in 1..n |-> config[i].s])>>
             \o configurations(SubSeq(config, n + 1, Len(config)))

\* Application._app_configuration()
application == W("application")
app_configuration ==
    M(application :> M((W("name") :> V("app")) @@ (W("version") :> V(""))
                       @@ (W("uuid") :> V("uuid4"))))

\* prefixes that leave no key out
env_prefixes_NoDenylist(default_configuration) ==
    {upper(key) \o <<USC>> : key \in Keys(default_configuration)}

\* the prefixes of env_prefixes=True: KEY_ for each top-level key of the
\* default configuration but base, python and the keys that start with '_'
env_prefixes(default_configuration) ==
    {upper(key) \o <<USC>> :
        key \in {key \in Keys(default_configuration) :
                    key \notin {W("base"), W("python")} /\ ~startswith(key, <<USC>>)}}

\* a chain that gives the environment after the command line
get_configurations_EnvLast(self_c, files, environ, parsed) ==
    <<self_c, app_configuration>> \o files \o configurations(parsed)
    \o (IF env_prefixes(self_c) # {}
        THEN <<from_environ(self_c, environ, env_prefixes(self_c))>> ELSE <<>>)

\* Application._get_configurations(configuration_paths, env_prefixes=True):
\* files holds the tree of each file that exists, in the order of the paths
get_configurations(self_c, files, environ, parsed) ==
    <<self_c, app_configuration>> \o files
    \o (IF env_prefixes(self_c) # {}
        THEN <<from_environ(self_c, environ, env_prefixes(self_c))>> ELSE <<>>)
    \o configurations(parsed)

\* the scenario: the global configuration, the configuration files that
\* exist, the environment and the command line.  Key a holds a scalar and
\* key b a mapping with the scalar x in every source.
b_x == Dot(b, x)
B_X == <<"B", USC, "X">>
Z_X == <<"Z", USC, "X">>
MaxArgs == 2
testmyenv == W("testmyenv")
base == W("base")
python == W("python")
_h == <<USC, "h">>
xxx == W("xxx")
TESTMYENV_X == <<"TESTMYENV", USC, "X">>
TESTMYENV_Y == <<"TESTMYENV", USC, "Y">>
XXX == <<"XXX">>
BASE_X == <<"BASE", USC, "X">>
PYTHON_X == <<"PYTHON", USC, "X">>
_H_X == <<USC, "H", USC, "X">>
\* defaults with the key testmyenv and the keys that give no prefix
EnvDefaults ==
    M((testmyenv :> M(x :> V("d"))) @@ (base :> M(x :> V("d")))
      @@ (python :> M(x :> V("d"))) @@ (_h :> M(x :> V("d"))))
AppDefaults ==
    { M((a :> V("d")) @@ (b :> M(x :> V("d")))),
      M(a :> V("d")),
      M((a :> MANDATORY) @@ (b :> M(x :> V("d")))),
      EnvDefaults }
AppFiles ==
    { <<>>, <<M(a :> V("f"))>>, <<M(b :> M(x :> V("f")))>>, <<M(a :> MANDATORY)>> }
EnvVarNames == {TESTMYENV_X, TESTMYENV_Y, XXX, BASE_X, PYTHON_X, _H_X}
AppEnvirons ==
    UNION {[names -> {<<"e">>, <<"???">>}] : names \in SUBSET {B_X, Z_X}}
    \cup UNION {[names -> {<<"e">>}] :
                    names \in {EnvVarNames} \cup {{name} : name \in EnvVarNames}}
AppArguments ==
    { [opt |-> "", value |-> KeyValue(a, <<"c">>)],
      [opt |-> "", value |-> KeyValue(b_x, <<"c">>)],
      [opt |-> "", value |-> KeyValue(a, <<"???">>)],
      [opt |-> "", value |-> a],
      [opt |-> "-f", file |-> M(b :> M(x :> V("g")))] }
AppArgumentLists == UNION {[1..n -> AppArguments] : n \in 0..MaxArgs}

InitApp ==
    /\ appIn \in [defaults : AppDefaults, files : AppFiles,
                  environ : AppEnvirons, arguments : AppArgumentLists]
    /\ app = [pc |-> "start"]
    /\ mIn = [i \in 1..NTrees |-> EmptyMap]
    /\ mStep = MergeIdle
    /\ mOnce = OnceIdle
    /\ fIn = FindIdle
    /\ fOut = NoResult
    /\ alive = {}
    /\ c = <<>>
    /\ helpersRef = <<>>
    /\ typePathRef = <<>>
    /\ heap = <<>>
    /\ type_value = <<>>
    /\ lastSetup = SetupIdle
    /\ call = CallIdle
    /\ nops = 0
    /\ eIn = EnvIdle
    /\ eOut = EnvNoResult

\* self.parsed = self.argument_parser.parse_args(arguments)
AppParseArgs ==
    /\ app.pc = "start"
    /\ LET r == parse_args(appIn.arguments)
       IN  app' = IF r.r = "raise" THEN [pc |-> "raised", out |-> r]
                  ELSE [pc |-> "parsed", parsed |-> r.v]
    /\ UNCHANGED <<appIn, mergeVars, findVars, confVars, envVars>>

\* self.__config = Configuration(parent=ctx_configuration)
AppNewConfiguration ==
    /\ app.pc = "parsed"
    /\ app' = [pc |-> "created", parsed |-> app.parsed, c |-> appIn.defaults]
    /\ UNCHANGED <<appIn, mergeVars, findVars, confVars, envVars>>

\* self.__config._merge(self._get_configurations(...)), and
\* OmegaConf.resolve on a tree without interpolation
AppMerge ==
    /\ app.pc = "created"
    /\ LET r == Configuration_merge(app.c, get_configurations(app.c, appIn.files,
                                                              appIn.environ, app.parsed))
       IN  app' = IF IsErr(r)
                  THEN [pc |-> "raised", out |-> Raise("TypeError", EmptyStr)]
                  ELSE [pc |-> "merged", parsed |-> app.parsed, c |-> r]
    /\ UNCHANGED <<appIn, mergeVars, findVars, confVars, envVars>>

NextApp == AppParseArgs \/ AppNewConfiguration \/ AppMerge

SpecApp == InitApp /\ [][NextApp]_vars

\* the value each kind of source gives to key, NotFound when it gives none:
\* the node of the tree, which may be '???'
InFiles(key) ==
    IF Len(appIn.files) = 0 THEN NotFound
    ELSE SelectParts(appIn.files[1], Split(key, DOT))
InDefaults(key) == SelectParts(appIn.defaults, Split(key, DOT))
InAppProps(key) == SelectParts(app_configuration, Split(key, DOT))
\* the variable NAME_PARTS of the environment, when NAME_ is an accepted prefix
InEnviron(key) ==
    LET name == upper(Join(Split(key, DOT), USC))
    IN  IF name \in DOMAIN appIn.environ
           /\ Split(key, DOT)[1] \in Keys(appIn.defaults)
           /\ Len(Split(key, DOT)) > 1
        THEN ParseValue(appIn.environ[name]) ELSE NotFound
\* the command line fragments, one per -f file and one per run of key=value
\* arguments, where the last key=value of a key stands
CommandLine == configurations(app.parsed)
InCommandLine(key, i) == SelectParts(CommandLine[i], Split(key, DOT))

\* the values given to key in the order of the sources
Given(key) ==
    <<InDefaults(key), InAppProps(key), InFiles(key), InEnviron(key)>>
    \o [i \in 1..Len(CommandLine) |-> InCommandLine(key, i)]

\* the last value of given that is in wanted, NotFound when there is none
RECURSIVE Latest(_, _)
Latest(given, unwanted) ==
    IF Len(given) = 0 THEN NotFound
    ELSE IF given[Len(given)] \in unwanted
    THEN Latest(SubSeq(given, 1, Len(given) - 1), unwanted)
    ELSE given[Len(given)]

AppKeys == {a, b_x}
Resolved(key) == SelectParts(app.c, Split(key, DOT))

----------------------------------------------------------------------------
(* Configuration.from_environ on its own *)

pfx == W("pfx")
PFX_ == <<"PFX", USC>>
MY_ == <<"MY", USC>>
TEST_ == <<"TEST", USC>>
PFX_MY_TEST_A == <<"PFX", USC, "MY", USC, "TEST", USC, "A">>
PFX_TEST_TEST_MY_TEST == <<"PFX", USC, "TEST", USC, "TEST", USC, "MY", USC, "TEST">>
MY_TEST_A == <<"MY", USC, "TEST", USC, "A">>
TEST_TEST_MY_TEST == <<"TEST", USC, "TEST", USC, "MY", USC, "TEST">>

\* the tree with the mapping my_test and the mapping test_test that holds
\* the key my_test
EnvTree == M(my_test :> M(a :> V("0")) @@ test_test :> M(my_test :> V("0")))
EnvTrees == {EnvTree, EmptyMap, M(my :> V("0") @@ my_test :> M(a :> V("0")))}
EnvNames == {PFX_MY_TEST_A, PFX_TEST_TEST_MY_TEST, MY_TEST_A, TEST_TEST_MY_TEST}
EnvEnvirons == UNION {[names -> {<<"1">>}] : names \in SUBSET EnvNames}
EnvPrefixes == {{PFX_}, {MY_, TEST_}}

InitEnv ==
    /\ eIn \in [conf : EnvTrees, environ : EnvEnvirons, prefixes : EnvPrefixes]
    /\ eOut = EnvNoResult
    /\ mIn = [i \in 1..NTrees |-> EmptyMap]
    /\ mStep = MergeIdle
    /\ mOnce = OnceIdle
    /\ fIn = FindIdle
    /\ fOut = NoResult
    /\ alive = {}
    /\ c = <<>>
    /\ helpersRef = <<>>
    /\ typePathRef = <<>>
    /\ heap = <<>>
    /\ type_value = <<>>
    /\ lastSetup = SetupIdle
    /\ call = CallIdle
    /\ nops = 0
    /\ appIn = AppIdle
    /\ app = AppIdle

\* conf = self.from_environ(prefixes)
FromEnviron ==
    /\ eOut = EnvNoResult
    /\ eOut' = from_environ(eIn.conf, eIn.environ, eIn.prefixes)
    /\ UNCHANGED <<eIn, mergeVars, findVars, confVars, appVars>>

NextEnv == FromEnviron

SpecEnv == InitEnv /\ [][NextEnv]_vars

\* the fragment is returned and variable name was in the environment, on
\* the tree EnvTree with the given prefixes
EnvCase(name, prefixes) ==
    /\ eOut # EnvNoResult
    /\ eIn.conf = EnvTree
    /\ eIn.prefixes = prefixes
    /\ name \in DOMAIN eIn.environ

EnvAt(key) == SelectParts(eOut, Split(key, DOT))

\* C11 as stated: with prefix PFX_ the prefix is stripped, PFX_MY_TEST_A is
\* assigned to my_test.a and PFX_TEST_TEST_MY_TEST to test_test.my_test.
C11_Original ==
    /\ EnvCase(PFX_MY_TEST_A, {PFX_}) => EnvAt(Dot(my_test, a)) = V("1")
    /\ EnvCase(PFX_TEST_TEST_MY_TEST, {PFX_}) => EnvAt(Dot(test_test, my_test)) = V("1")

\* C11: the whole name, prefix included, is lower-cased and split into a key
\* path.  With prefix PFX_, PFX_MY_TEST_A is assigned to pfx.my.test.a and
\* PFX_TEST_TEST_MY_TEST to pfx.test.test.my.test, and nothing is assigned
\* below my_test or test_test; with the prefixes MY_ and TEST_, MY_TEST_A is
\* assigned to my_test.a and TEST_TEST_MY_TEST to test_test.my_test.
C11_EnvNameKeepsPrefix ==
    /\ EnvCase(PFX_MY_TEST_A, {PFX_}) =>
          /\ EnvAt(Join(<<pfx, my, test, a>>, DOT)) = V("1")
          /\ Keys(eOut) = {pfx}
    /\ EnvCase(PFX_TEST_TEST_MY_TEST, {PFX_}) =>
          /\ EnvAt(Join(<<pfx, test, test, my, test>>, DOT)) = V("1")
          /\ Keys(eOut) = {pfx}
    /\ EnvCase(MY_TEST_A, {MY_, TEST_}) => EnvAt(Dot(my_test, a)) = V("1")
    /\ EnvCase(TEST_TEST_MY_TEST, {MY_, TEST_}) =>
          EnvAt(Dot(test_test, my_test)) = V("1")

\* from_environ has returned with all four variables in the environment,
\* once for each set of prefixes
C11_Witness ==
    /\ EnvCase(PFX_MY_TEST_A, {PFX_})
    /\ EnvCase(PFX_TEST_TEST_MY_TEST, {PFX_})
    /\ EnvAt(Join(<<pfx, my, test, a>>, DOT)) = V("1")

----------------------------------------------------------------------------
(* The environment fragment of Application.setup_configuration *)

InEnv(name) == name \in DOMAIN appIn.environ

\* C12: with env_prefixes=True only the variables that start with K_, k a
\* top-level key of the defaults other than base, python and the keys that
\* start with '_', reach the configuration: XXX creates no key, BASE_X,
\* PYTHON_X and _H_X change nothing, TESTMYENV_X replaces the default of
\* testmyenv.x and TESTMYENV_Y sets testmyenv.y; without the key testmyenv
\* in the defaults the two variables create no key.
C12_EnvPrefixes ==
    app.pc = "merged" =>
        /\ xxx \notin Keys(app.c)
        /\ W("h") \notin Keys(app.c)
        /\ testmyenv \notin Keys(appIn.defaults) => testmyenv \notin Keys(app.c)
        /\ appIn.defaults = EnvDefaults =>
              /\ Resolved(Dot(base, x)) = V("d")
              /\ Resolved(Dot(python, x)) = V("d")
              /\ Resolved(Dot(_h, x)) = V("d")
              /\ Resolved(Dot(testmyenv, x)) =
                    IF InEnv(TESTMYENV_X) THEN V("e") ELSE V("d")
              /\ Resolved(Dot(testmyenv, y)) =
                    IF InEnv(TESTMYENV_Y) THEN V("e") ELSE NotFound

\* XXX, TESTMYENV_X and TESTMYENV_Y are in the environment with the key
\* testmyenv in the defaults, and the merged tree holds the two values
C12_Witness ==
    /\ app.pc = "merged"
    /\ appIn.defaults = EnvDefaults
    /\ InEnv(XXX) /\ InEnv(TESTMYENV_X) /\ InEnv(TESTMYENV_Y) /\ InEnv(BASE_X)
    /\ Resolved(Dot(testmyenv, x)) = V("e")
    /\ Resolved(Dot(testmyenv, y)) = V("e")
    /\ xxx \notin Keys(app.c)

----------------------------------------------------------------------------
(* One Configuration given mappings, schema types and helpers *)

MaxSetups == 2
two == W("two")
lst == W("l")
a_b_c_d == Join(<<a, b, W("c"), W("d")>>, DOT)
a_b_c_x == Join(<<a, b, W("c"), x>>, DOT)
a_b_two == Join(<<a, b, two>>, DOT)

\* {'a.b': {'c.d': 1, 'two': 2, 'c.x': 'x'}}
DotsConf == M(a_b :> M((c_d :> V("1")) @@ (two :> V("2")) @@ (Dot(W("c"), x) :> V("x"))))

\* the mappings given to setup_configuration
MappingInputs ==
    { [conf |-> DotsConf, kind |-> "dict", prefix |-> EmptyStr, helpers |-> NoHelpers],
      [conf |-> DotsConf, kind |-> "DictConfig", prefix |-> EmptyStr,
       helpers |-> NoHelpers],
      [conf |-> M(lst :> L(<<M(a_b :> V("1"))>>)), kind |-> "dict",
       prefix |-> EmptyStr, helpers |-> NoHelpers],
      [conf |-> M(a :> M(b :> M(two :> V("3")))), kind |-> "dict",
       prefix |-> EmptyStr, helpers |-> NoHelpers],
      [conf |-> M(a_b :> V("1")), kind |-> "dict", prefix |-> W("p"),
       helpers |-> NoHelpers],
      [conf |-> M(a :> V("1")), kind |-> "dict", prefix |-> EmptyStr,
       helpers |-> (a :> "Help")],
      [conf |-> M(a :> V("1")), kind |-> "dict", prefix |-> EmptyStr,
       helpers |-> (W("zz") :> "Help")] }
DottedGetKeys == {a_b_c_d, a_b_c_x, a_b_two}

\* cfg.setup_configuration(in.conf, in.helpers, prefix=in.prefix) as a step
SetupCall(cfg, in) ==
    LET st == [c |-> c[cfg], helpers |-> heap[helpersRef[cfg]],
               tp |-> heap[typePathRef[cfg]], tv |-> type_value[cfg]]
        r == setup_configuration(st, in)
    IN  /\ c' = [c EXCEPT ![cfg] = r.c]
        /\ heap' = [heap EXCEPT ![helpersRef[cfg]] = r.helpers,
                                ![typePathRef[cfg]] = r.tp]
        /\ type_value' = [type_value EXCEPT ![cfg] = r.tv]
        /\ lastSetup' = [cfg |-> cfg, in |-> in, pre |-> c[cfg],
                         conf |-> r.conf, out |-> r.out]
        /\ call' = [op |-> "setup", cfg |-> cfg, out |-> r.out]
        /\ nops' = nops + 1
        /\ UNCHANGED <<alive, helpersRef, typePathRef, mergeVars, findVars, appVars,
                       envVars>>

\* cfg.get(key, type, default=default) as a step
GetCall(cfg, key, type, default) ==
    /\ call' = [op |-> "get", cfg |-> cfg, key |-> key, type |-> type,
                default |-> default,
                out |-> Configuration_get(c[cfg], key, type, default)]
    /\ UNCHANGED <<alive, c, helpersRef, typePathRef, heap, type_value, lastSetup,
                   nops, mergeVars, findVars, appVars, envVars>>

\* cfg.get(type, default=default) for a schema type, as a step
GetTypeCall(cfg, type, default) ==
    LET r == Configuration_get_type(type_value[cfg], heap[typePathRef[cfg]],
                                    c[cfg], type, default)
    IN  /\ type_value' = [type_value EXCEPT ![cfg] = r.tv]
        /\ call' = [op |-> "get_type", cfg |-> cfg, type |-> type,
                    default |-> default, out |-> r.out, before |-> type_value[cfg]]
        /\ UNCHANGED <<alive, c, helpersRef, typePathRef, heap, lastSetup, nops,
                       mergeVars, findVars, appVars, envVars>>

\* the prefixes the schema types are registered under
SchemaPrefixes == {EmptyStr, tPrefix}
SchemaInputs ==
    { [conf |-> type, kind |-> "type", prefix |-> prefix, helpers |-> NoHelpers] :
        type \in SchemaTypes, prefix \in SchemaPrefixes }
NoSchemaPath == [type \in SchemaTypes |-> PathAbsent]

InitSetup ==
    /\ alive = {"P"}
    /\ c = [cfg \in Cfgs |-> EmptyMap]
    /\ helpersRef = HelpersCell
    /\ typePathRef = TypePathCell
    /\ heap = [cell \in 1..4 |-> IF cell \in {2, 4} THEN NoSchemaPath ELSE NoHelpers]
    /\ type_value = [cfg \in Cfgs |-> TypeValueDict(<<>>)]
    /\ lastSetup = SetupIdle
    /\ call = CallIdle
    /\ nops = 0
    /\ mIn = [i \in 1..NTrees |-> EmptyMap]
    /\ mStep = MergeIdle
    /\ mOnce = OnceIdle
    /\ fIn = FindIdle
    /\ fOut = NoResult
    /\ appIn = AppIdle
    /\ app = AppIdle
    /\ eIn = EnvIdle
    /\ eOut = EnvNoResult

\* P.setup_configuration(mapping)
SetupMapping ==
    /\ nops < MaxSetups
    /\ \E in \in MappingInputs : SetupCall("P", in)

\* P.get(key) for a dotted path
GetDotted ==
    /\ "P" \in alive
    /\ \E key \in DottedGetKeys : GetCall("P", key, NoType, raise_on_missing)

\* P.setup_configuration(type, prefix=prefix)
SetupSchema ==
    /\ nops < MaxSetups
    /\ \E in \in SchemaInputs : SetupCall("P", in)

\* P.get(type)
GetSchema ==
    /\ "P" \in alive
    /\ \E type \in SchemaTypes : GetTypeCall("P", type, raise_on_missing)

\* the keys, types and defaults of the typed gets
TypedGetKeys == {W("k"), a}
TypedGetTypes == {NoType, IntType}
TypedGetDefaults == {raise_on_missing, V("abc"), NONE}

\* P.get(key, type, default=default)
GetTyped ==
    /\ "P" \in alive
    /\ \E key \in TypedGetKeys, type \in TypedGetTypes, default \in TypedGetDefaults :
          GetCall("P", key, type, default)

NextSetup == SetupMapping \/ GetDotted \/ SetupSchema \/ GetSchema \/ GetTyped

SpecSetup == InitSetup /\ [][NextSetup]_vars

\* some mapping key of the tree, at any depth and inside lists, holds a '.'
RECURSIVE HasDottedKey(_)
HasDottedKey(node) ==
    IF IsMap(node)
    THEN \E key \in Keys(node) : HasDot(key) \/ HasDottedKey(node.m[key])
    ELSE IF IsList(node)
    THEN \E i \in 1..Len(node.l) : HasDottedKey(node.l[i])
    ELSE FALSE

\* the latest setup_configuration, of conf, has returned and get(key) was
\* called after it
GotAfterSetup(conf, key) ==
    /\ call.op = "get" /\ call.key = key
    /\ lastSetup.cfg = call.cfg
    /\ lastSetup.out.r = "return"
    /\ lastSetup.in.conf = conf

\* C13: after successful setup_configuration calls given mappings no
\* mapping key of the tree holds a '.', and after
\* setup_configuration({'a.b': {'c.d': 1, 'two': 2, 'c.x': 'x'}})
\* get('a.b.c.d') is 1, get('a.b.c.x') is 'x' and get('a.b.two') is 2.
C13_NoDottedKeys ==
    /\ \A cfg \in alive : ~HasDottedKey(c[cfg])
    /\ GotAfterSetup(DotsConf, a_b_c_d) => call.out = Return(V("1"))
    /\ GotAfterSetup(DotsConf, a_b_c_x) => call.out = Return(V("x"))
    /\ GotAfterSetup(DotsConf, a_b_two) => call.out = Return(V("2"))

----------------------------------------------------------------------------
(* Registration of a schema type *)

\* the latest call registered a schema type
IsRegistration == call.op = "setup" /\ lastSetup.in.kind = "type"

\* the default sub-tree of a schema type: the explicit default, '???' for a
\* required field without default, null for an optional field without default
DefaultSubTree(type) ==
    LET fields == model_fields_of(type)
    IN  M([field \in DOMAIN fields |->
             CASE fields[field].default # Unset -> fields[field].default
               [] fields[field].default = Unset /\ fields[field].required -> MANDATORY
               [] OTHER -> NONE])

\* the sub-tree under the prefix
Mounted(tree, prefix) == IF prefix = EmptyStr THEN tree ELSE add_prefix(tree, prefix)

\* C14: once a schema type is registered under a prefix, the tree is the tree
\* before the call merged with the default sub-tree of the type mounted under
\* the prefix (one key per field: the explicit default, '???' for a required
\* field without default, null for an optional field without default), and
\* the helpers hold each field description at prefix + field name.
C14_SchemaDefaults ==
    IsRegistration =>
        LET type == lastSetup.in.conf
            prefix == lastSetup.in.prefix
            fields == model_fields_of(type)
            helpers == heap[helpersRef[lastSetup.cfg]]
        IN  /\ c[lastSetup.cfg] =
                  OmegaConf_merge(<<lastSetup.pre, Mounted(DefaultSubTree(type), prefix)>>)
            /\ \A field \in DOMAIN fields :
                  fields[field].description # "" =>
                      /\ PrefixPath(prefix) \o field \in DOMAIN helpers
                      /\ helpers[PrefixPath(prefix) \o field] = fields[field].description

\* the registration did not fail on the type values
C14_RegistrationRan == IsRegistration /\ lastSetup.out.r = "return"

----------------------------------------------------------------------------
(* Get of an absent key *)

\* the latest call is a get of a str key that the tree does not hold
IsGetAbsent ==
    /\ call.op = "get"
    /\ SelectParts(c[call.cfg], Split(call.key, DOT)) = NotFound

----------------------------------------------------------------------------
(* Helpers given to setup_configuration *)

\* the keys of the helpers of the latest setup_configuration whose path is
\* not in the configuration that was registered
InvalidHelpers ==
    {hk \in DOMAIN lastSetup.in.helpers :
        SelectParts(prepare_config(lastSetup.in.conf), Split(hk, DOT)) = NotFound}

\* C16: a setup_configuration whose helpers hold a key that is not in the
\* registered configuration raises, and that helper is not registered.
C16_InvalidHelperRaises ==
    (call.op = "setup" /\ lastSetup.in.kind # "type" /\ InvalidHelpers # {}) =>
        /\ lastSetup.out.r = "raise"
        /\ \A hk \in InvalidHelpers :
              PrefixPath(lastSetup.in.prefix) \o hk
                  \notin DOMAIN heap[helpersRef[lastSetup.cfg]]

----------------------------------------------------------------------------
(* Application.masked_configuration *)

\* the tokens that end in password, secret or key
SecretWords == {"password", "mypassword", "secret", "key"}

\* SECRET_MASKS: re.compile(r'.*(password|secret|key)(?!_file)(_|$)').match
SECRET_MASKS(path) ==
    \E i \in 1..Len(path) :
        /\ path[i] \in SecretWords
        /\ \/ i = Len(path)
           \/ /\ path[i + 1] = USC
              /\ ~(i + 2 <= Len(path) /\ path[i + 2] = "file")

\* the marker that stands for a secret value
MASKED == V("*****")

\* list(v) of a dict: its keys
KeyList(keys) == [k |-> "keys", keys |-> keys]

\* bool(v) of a node
Truthy(node) ==
    IF IsMap(node) THEN Keys(node) # {}
    ELSE IF IsList(node) THEN Len(node.l) > 0
    ELSE IF IsVal(node) THEN node.v \notin {"null", "", "0", "false"}
    ELSE node.keys # {}

\* the path of the value of key in the mapping at path, and of item i of the
\* list at path
ChildPath(path, key) == IF path = EmptyStr THEN key ELSE Dot(path, key)
ItemPath(path, i) == path \o <<IF i = 1 THEN "[0]" ELSE "[1]">>

\* the path predicates masked_configuration gives to __mask_config: the
\* secret masks, the two passes over base, and the mask keys
Check(mode, ctx, path) ==
    CASE mode = "secrets" -> SECRET_MASKS(path)
      [] mode = "base1" -> ~IsMap(OmegaConf_select(ctx.c, path))
      [] mode = "base2" -> TRUE
      [] OTHER -> path \in ctx.mask_keys

\* the replace functions masked_configuration gives to __mask_config
Replace(mode, v) ==
    CASE mode = "secrets" -> IF v = NONE \/ v = MANDATORY THEN v ELSE MASKED
      [] mode = "base1" -> EmptyMap
      [] mode = "base2" -> IF IsMap(v) /\ \A key \in Keys(v) : ~Truthy(v.m[key])
                           THEN KeyList(Keys(v)) ELSE v
      [] OTHER -> NONE

\* Application.__mask_config(obj, check, replace, path): a value of a
\* mapping that comes out as None is left out of the result
RECURSIVE mask_config(_, _, _, _)
mask_config(obj, mode, ctx, path) ==
    LET replaced == IF Check(mode, ctx, path) THEN Replace(mode, obj) ELSE obj
    IN  IF IsMap(replaced)
        THEN LET new == [key \in Keys(replaced) |->
                           mask_config(replaced.m[key], mode, ctx, ChildPath(path, key))]
             IN  M([key \in {kk \in Keys(replaced) : new[kk] # NONE} |-> new[key]])
        ELSE IF IsList(replaced)
        THEN L([i \in 1..Len(replaced.l) |->
                  mask_config(replaced.l[i], mode, ctx, ItemPath(path, i))])
        ELSE replaced

\* a masked_configuration that masks the tree of the Configuration itself
masked_configuration_InPlace(self_c, mask_base, mask_secrets, mask_keys) ==
    LET ctx == [c |-> self_c, mask_keys |-> mask_keys]
        secrets == IF mask_secrets THEN mask_config(self_c, "secrets", ctx, EmptyStr)
                   ELSE self_c
    IN  [out |-> Return(secrets), c |-> secrets, alias |-> TRUE]

\* Application.masked_configuration(mask_base=, mask_secrets=, mask_keys=) on
\* the tree self_c of the configuration: the outcome, the tree afterwards, and
\* whether the returned object shares containers with the tree.
\* OmegaConf.to_container builds new dicts and lists.
masked_configuration(self_c, mask_base, mask_secrets, mask_keys) ==
    LET ctx == [c |-> self_c, mask_keys |-> mask_keys]
        config == self_c
        secrets == IF mask_secrets THEN mask_config(config, "secrets", ctx, EmptyStr)
                   ELSE config
        doBase == mask_base /\ base \notin mask_keys
        based == IF doBase /\ base \in Keys(secrets)
                 THEN M([key \in Keys(secrets) |->
                           IF key = base
                           THEN mask_config(
                                    mask_config(secrets.m[base], "base1", ctx, EmptyStr),
                                    "base2", ctx, EmptyStr)
                           ELSE secrets.m[key]])
                 ELSE secrets
        keyed == IF mask_keys # {} THEN mask_config(based, "keys", ctx, EmptyStr)
                 ELSE based
    IN  IF doBase /\ base \notin Keys(secrets)
        THEN [out |-> Raise("KeyError", base), c |-> self_c, alias |-> FALSE]
        ELSE [out |-> Return(keyed), c |-> self_c, alias |-> FALSE]

\* the keys of the configurations that are masked
mypassword == W("mypassword")
password == W("password")
private_key == Und(W("private"), W("key"))
key_file == Und(W("key"), W("file"))
list_ == W("list")
x_date == Und(x, W("date"))
application_uuid == Dot(application, W("uuid"))

\* the base entry: {'logging': {'default': {'version': 1}, 'none': {}}}
BaseTree ==
    M(W("logging") :> M((W("default") :> M(W("version") :> V("1")))
                        @@ (W("none") :> EmptyMap)))

\* what every configuration of an application holds: base and application
AppTree == (base :> BaseTree) @@ app_configuration.m

\* the configurations of the application: that of test_secret_masks, one
\* with a null value, one with a key that names a file
MaskTrees ==
    { M(AppTree @@ (a :> M(mypassword :> V("s3cret")))
                @@ (list_ :> L(<<M((password :> MANDATORY)
                                   @@ (private_key :> V("123")))>>))),
      M(AppTree @@ (x_date :> NONE) @@ (a :> M(b :> V("1")))),
      M(AppTree @@ (key_file :> V("path")) @@ (Und(W("secret"), x) :> M(y :> V("1")))) }

\* the mask_keys arguments
MaskKeySets == {{application_uuid}, {}, {base}}

\* the values written into the returned copy
CHANGED == V("changed")

InitMask ==
    /\ alive = {"P"}
    /\ c \in {[cfg \in Cfgs |-> IF cfg = "P" THEN tree ELSE EmptyMap] : tree \in MaskTrees}
    /\ helpersRef = HelpersCell
    /\ typePathRef = TypePathCell
    /\ heap = [cell \in 1..4 |-> IF cell \in {2, 4} THEN NoTypePath ELSE NoHelpers]
    /\ type_value = [cfg \in Cfgs |-> TypeValueDict(<<>>)]
    /\ lastSetup = SetupIdle
    /\ call = CallIdle
    /\ nops = 0
    /\ mIn = [i \in 1..NTrees |-> EmptyMap]
    /\ mStep = MergeIdle
    /\ mOnce = OnceIdle
    /\ fIn = FindIdle
    /\ fOut = NoResult
    /\ appIn = AppIdle
    /\ app = AppIdle
    /\ eIn = EnvIdle
    /\ eOut = EnvNoResult

\* app.masked_configuration(mask_base=, mask_secrets=, mask_keys=), app
\* being the application whose configuration is P
MaskedConfiguration ==
    \E mask_base \in BOOLEAN, mask_secrets \in BOOLEAN, mask_keys \in MaskKeySets :
        LET r == masked_configuration(c["P"], mask_base, mask_secrets, mask_keys)
        IN  /\ "P" \in alive
            /\ c' = [c EXCEPT !["P"] = r.c]
            /\ call' = [op |-> "masked", mask_base |-> mask_base,
                        mask_secrets |-> mask_secrets, mask_keys |-> mask_keys,
                        pre |-> c["P"], out |-> r.out, alias |-> r.alias,
                        changed |-> {}]
            /\ UNCHANGED <<alive, helpersRef, typePathRef, heap, type_value,
                           lastSetup, nops, mergeVars, findVars, appVars, envVars>>

\* the caller assigns to a key of the dict that masked_configuration gave
ChangeCopy ==
    /\ call.op = "masked"
    /\ call.out.r = "return"
    /\ \E key \in Keys(call.out.v) \ call.changed :
          /\ call' = [call EXCEPT
                        !.out = Return(M([kk \in Keys(call.out.v) |->
                                            IF kk = key THEN CHANGED
                                            ELSE call.out.v.m[kk]])),
                        !.changed = call.changed \cup {key}]
          /\ c' = IF call.alias
                  THEN [c EXCEPT !["P"] = M([kk \in Keys(c["P"]) \cup {key} |->
                                               IF kk = key THEN CHANGED
                                               ELSE c["P"].m[kk]])]
                  ELSE c
    /\ UNCHANGED <<alive, helpersRef, typePathRef, heap, type_value, lastSetup,
                   nops, mergeVars, findVars, appVars, envVars>>

NextMask == MaskedConfiguration \/ ChangeCopy

SpecMask == InitMask /\ [][NextMask]_vars

\* C17: masked_configuration and every change of the copy it returned leave
\* the tree of the Configuration as it was, at every path.
C17_MaskReadOnly == [][c' = c]_vars

\* the copy holds the marker for a.mypassword and was changed by the caller,
\* and the Configuration still holds the real value
C17_Witness ==
    /\ call.op = "masked"
    /\ call.out.r = "return"
    /\ a \in call.changed
    /\ call.mask_secrets
    /\ list_ \in Keys(call.out.v)
    /\ call.out.v.m[list_].l[1].m[private_key] = MASKED
    /\ SelectParts(c["P"], <<a, mypassword>>) = V("s3cret")
    /\ SelectParts(c["P"], <<list_>>).l[1].m[private_key] = V("123")

\* the paths the masked copy need not keep: the base entry when it is
\* masked, and the mask keys
Excluded(path, mask_base, mask_keys) ==
    (mask_base /\ path = base) \/ path \in mask_keys

\* copy is orig with the secrets masked: a value whose path matches a secret
\* mask is the marker ('???' stays '???'), every other key is there with its
\* value, through mappings and lists
RECURSIVE Conforms(_, _, _, _, _)
Conforms(orig, copy, path, mask_base, mask_keys) ==
    IF SECRET_MASKS(path)
    THEN copy = (IF orig = MANDATORY THEN MANDATORY ELSE MASKED)
    ELSE IF IsMap(orig)
    THEN /\ IsMap(copy)
         /\ \A key \in Keys(orig) :
               \/ Excluded(ChildPath(path, key), mask_base, mask_keys)
               \/ /\ key \in Keys(copy)
                  /\ Conforms(orig.m[key], copy.m[key], ChildPath(path, key),
                              mask_base, mask_keys)
    ELSE IF IsList(orig)
    THEN /\ IsList(copy)
         /\ Len(copy.l) = Len(orig.l)
         /\ \A i \in 1..Len(orig.l) :
               Conforms(orig.l[i], copy.l[i], ItemPath(path, i), mask_base, mask_keys)
    ELSE copy = orig

\* C18: in the copy masked_configuration returns with mask_secrets, a value
\* is the marker '*****' exactly when its path matches a secret mask, through
\* mappings and lists, a matched '???' stays '???', and every key that
\* matches no mask (outside the base entry and mask_keys) is there with its
\* original value.
C18_MaskedCopy ==
    ( /\ call.op = "masked"
      /\ call.changed = {}
      /\ call.mask_secrets
      /\ call.out.r = "return" )
    => Conforms(call.pre, call.out.v, EmptyStr, call.mask_base, call.mask_keys)

----------------------------------------------------------------------------
(* ArgumentParser.parse_args on the tokens of a command line *)

MaxTokens == 3

\* the token '--'
DashDash == W("--")

\* the first words of the strings that start with '-', those that start
\* with '--', and the strings of two characters
DashWords == {"--", "-h", "--help", "-V", "--version", "-C", "--configuration",
              "-f", "--config", "--config-file", "--select", "-x", "-fx"}
DoubleDashWords == {"--", "--help", "--version", "--configuration", "--config",
                    "--config-file", "--select"}
ShortWords == {"--", "-h", "-V", "-C", "-f", "-x"}

\* ArgumentParser._opt_actions after configure_parser for an application
\* that has a version
opt_actions ==
    (W("-h") :> "HelpAction") @@ (W("--help") :> "HelpAction")
    @@ (W("-V") :> "VersionAction") @@ (W("--version") :> "VersionAction")
    @@ (W("-C") :> "ShowConfigurationAction")
    @@ (W("--configuration") :> "ShowConfigurationAction")
    @@ (W("-f") :> "ConfigurationFileAction")
    @@ (W("--config") :> "ConfigurationFileAction")
    @@ (W("--config-file") :> "ConfigurationFileAction")
    @@ (W("--select") :> "ConfigurationSelectAction")

\* Action.has_arg: bool(metavar)
has_arg(action) ==
    action \in {"ConfigurationAction", "ConfigurationFileAction",
                "ConfigurationSelectAction"}

\* the files OmegaConf.load finds
ArgFiles == (W("path") :> M(a :> V("2")))

\* ParseResult(): result, rest, _config
NewParseResult == [result |-> "None", rest |-> <<>>, config |-> <<>>]

\* action.check_argument(value): whether it gives an error; none says that
\* value is None
check_argument(action, none, value) ==
    CASE action = "ConfigurationAction" ->
            FirstSep(value, EQ) = 0 \/ none \/ value = EmptyStr
      [] action = "ConfigurationFileAction" -> none \/ value = EmptyStr
      [] action = "ConfigurationSelectAction" -> none \/ value = EmptyStr
      [] OTHER -> FALSE

\* the str ConfigurationSelectAction.handle adds:
\* key=${oc.select:base.key.value}, value being 'default' when there is none
SelectArgument(value) ==
    LET i == FirstSep(value, EQ)
        key == IF i = 0 THEN value ELSE SubSeq(value, 1, i - 1)
        template == IF i = 0 \/ i = Len(value) THEN W("default")
                    ELSE SubSeq(value, i + 1, Len(value))
    IN  key \o <<EQ, "${oc.select:base.">> \o key \o <<DOT>> \o template \o <<"}">>

\* the loop of parse_args on the arguments that are left, and what it does
\* with an action and its value: check_argument, handle, and the 'stop' of
\* the actions that set the result
RECURSIVE parse_loop(_, _)
RECURSIVE parse_handle(_, _, _, _, _)
parse_handle(action, none, value, arguments, result) ==
    IF check_argument(action, none, value)
    THEN Raise("ArgumentError", value)
    ELSE IF action = "ConfigurationAction"
    THEN parse_loop(arguments,
                    [result EXCEPT !.config = @ \o <<[type |-> "str", s |-> value]>>])
    ELSE IF action = "ConfigurationSelectAction"
    THEN parse_loop(arguments,
                    [result EXCEPT !.config =
                        @ \o <<[type |-> "str", s |-> SelectArgument(value)]>>])
    ELSE IF action = "ConfigurationFileAction"
    THEN IF value \in DOMAIN ArgFiles
         THEN parse_loop(arguments,
                         [result EXCEPT !.config =
                             @ \o <<[type |-> "DictConfig", conf |-> ArgFiles[value]]>>])
         ELSE Raise("FileNotFoundError", value)
    ELSE IF result.result # "None"
    THEN Raise("ArgumentError", W("Result is already set"))
    ELSE Return([result EXCEPT !.result = action, !.rest = arguments])

parse_loop(arguments, result) ==
    IF Len(arguments) = 0 THEN Return(result)
    ELSE LET first == Head(arguments)
             left == Tail(arguments)
             is_opt == first[1] \in DashWords
             eq == FirstSep(first, EQ)
             split == is_opt /\ eq > 0
             arg == IF split THEN SubSeq(first, 1, eq - 1) ELSE first
             value == IF split THEN SubSeq(first, eq + 1, Len(first)) ELSE EmptyStr
         IN  IF first = DashDash
             THEN Return([result EXCEPT !.rest = left])
             ELSE IF split /\ (arg = EmptyStr
                               \/ (arg[1] \notin DoubleDashWords /\ arg[1] \notin ShortWords))
             THEN Raise("ArgumentError", arg)
             ELSE IF is_opt
             THEN IF arg \notin DOMAIN opt_actions
                  THEN Raise("ArgumentError", arg)
                  ELSE LET action == opt_actions[arg]
                       IN  IF ~split /\ has_arg(action)
                           THEN IF Len(left) = 0
                                THEN Raise("ArgumentError", arg)
                                ELSE parse_handle(action, FALSE, Head(left),
                                                  Tail(left), result)
                           ELSE IF split /\ ~has_arg(action)
                           THEN Raise("ArgumentError", arg)
                           ELSE parse_handle(action, ~split, value, left, result)
             ELSE IF check_argument("ConfigurationAction", FALSE, first)
             THEN Raise("ArgumentError", first)
             ELSE parse_handle("ConfigurationAction", FALSE, first, left, result)

\* ArgumentParser.parse_args(arguments)
ArgumentParser_parse_args(arguments) == parse_loop(arguments, NewParseResult)

\* a _handle_parsed_result that looks at rest before the result
handle_parsed_result_RestFirst(parsed) ==
    IF parsed.rest # <<>> THEN Raise("ArgumentError", W("Too many arguments"))
    ELSE IF parsed.result # "None" THEN Raise("ExitApplication", EmptyStr)
    ELSE Return(NONE)

\* Application._handle_parsed_result(): the action that was selected runs
\* (help, version and show configuration print and raise ExitApplication),
\* otherwise arguments that are left are an error
handle_parsed_result(parsed) ==
    IF parsed.result # "None" THEN Raise("ExitApplication", EmptyStr)
    ELSE IF parsed.rest # <<>> THEN Raise("ArgumentError", W("Too many arguments"))
    ELSE Return(NONE)

\* the tokens of the command lines
ArgTokens ==
    { DashDash, W("-h"), W("-V"), W("-C"), KeyValue(a, W("1")), W("other"),
      W("-f"), W("path"), W("--select"), W("-x"),
      KeyValue(W("-h"), W("1")), KeyValue(W("-f"), W("path")) }
ArgLists == UNION {[1..n -> ArgTokens] : n \in 0..MaxTokens}

InitArgs ==
    /\ alive = {"P"}
    /\ c = [cfg \in Cfgs |-> EmptyMap]
    /\ helpersRef = HelpersCell
    /\ typePathRef = TypePathCell
    /\ heap = [cell \in 1..4 |-> IF cell \in {2, 4} THEN NoTypePath ELSE NoHelpers]
    /\ type_value = [cfg \in Cfgs |-> TypeValueDict(<<>>)]
    /\ lastSetup = SetupIdle
    /\ call = CallIdle
    /\ nops = 0
    /\ mIn = [i \in 1..NTrees |-> EmptyMap]
    /\ mStep = MergeIdle
    /\ mOnce = OnceIdle
    /\ fIn = FindIdle
    /\ fOut = NoResult
    /\ appIn = AppIdle
    /\ app = AppIdle
    /\ eIn = EnvIdle
    /\ eOut = EnvNoResult

\* self.parsed = self.argument_parser.parse_args(arguments)
ParseArgs ==
    /\ call.op = "none"
    /\ \E arguments \in ArgLists :
          call' = [op |-> "parse_args", arguments |-> arguments,
                   out |-> ArgumentParser_parse_args(arguments)]
    /\ UNCHANGED <<alive, c, helpersRef, typePathRef, heap, type_value, lastSetup,
                   nops, mergeVars, findVars, appVars, envVars>>

\* self._handle_parsed_result()
HandleParsedResult ==
    /\ call.op = "parse_args"
    /\ call.out.r = "return"
    /\ call' = [op |-> "handle", arguments |-> call.arguments, parsed |-> call.out,
                out |-> handle_parsed_result(call.out.v)]
    /\ UNCHANGED <<alive, c, helpersRef, typePathRef, heap, type_value, lastSetup,
                   nops, mergeVars, findVars, appVars, envVars>>

NextArgs == ParseArgs \/ HandleParsedResult

SpecArgs == InitArgs /\ [][NextArgs]_vars

\* the tokens that select an action, and the options that take the next
\* token as their value
ActionTokens == {W("-h"), W("--help"), W("-V"), W("--version"), W("-C"),
                 W("--configuration")}
ValueOptions == {W("-f"), W("--config"), W("--config-file"), W("--select")}

\* the place where the parsing of arguments stops, from token i on: the first
\* '--' or action token that is not the value of an option, or one past the
\* end
RECURSIVE StopPoint(_, _)
StopPoint(arguments, i) ==
    IF i > Len(arguments) THEN Len(arguments) + 1
    ELSE IF arguments[i] = DashDash \/ arguments[i] \in ActionTokens THEN i
    ELSE IF arguments[i] \in ValueOptions THEN StopPoint(arguments, i + 2)
    ELSE StopPoint(arguments, i + 1)

\* the arguments up to the stop point
UpToStop(arguments) ==
    SubSeq(arguments, 1,
           IF StopPoint(arguments, 1) > Len(arguments) THEN Len(arguments)
           ELSE StopPoint(arguments, 1))

\* the outcome of the latest parse_args
Parsed == IF call.op = "handle" THEN call.parsed ELSE call.out

\* C20: parse_args stops at the first '--' or right after the first action
\* token: the tokens after it are the rest, in their order, and have no part
\* in the outcome or in the configurations (the outcome is that of the
\* arguments up to the stop point); the result is set exactly when the stop
\* was an action token.  _handle_parsed_result then runs the action when one
\* was selected, raises ArgumentError when none was and the rest is not empty,
\* and returns otherwise.
C20_StopAndRest ==
    call.op \in {"parse_args", "handle"} =>
        LET arguments == call.arguments
            stop == StopPoint(arguments, 1)
            short == ArgumentParser_parse_args(UpToStop(arguments))
        IN  /\ Parsed.r = short.r
            /\ Parsed.r = "raise" => Parsed = short
            /\ Parsed.r = "return" =>
                  /\ Parsed.v.rest = SubSeq(arguments, stop + 1, Len(arguments))
                  /\ Parsed.v.config = short.v.config
                  /\ Parsed.v.result # "None" <=>
                        (stop <= Len(arguments) /\ arguments[stop] \in ActionTokens)
            /\ call.op = "handle" =>
                  IF Parsed.v.result # "None"
                  THEN call.out = Raise("ExitApplication", EmptyStr)
                  ELSE IF Parsed.v.rest # <<>>
                  THEN call.out.r = "raise" /\ call.out.exc = "ArgumentError"
                  ELSE call.out = Return(NONE)

\* ['a=1', '--', '-h'] was parsed: '-h' is the rest, no action was selected
\* and the setup failed with an argument error
C20_Witness ==
    /\ call.op = "handle"
    /\ call.arguments = <<KeyValue(a, W("1")), DashDash, W("-h")>>
    /\ call.parsed.v.rest = <<W("-h")>>
    /\ call.parsed.v.result = "None"
    /\ Len(call.parsed.v.config) = 1
    /\ call.out.r = "raise"
    /\ call.out.exc = "ArgumentError"

----------------------------------------------------------------------------
(* The run wrappers: Application.run and cli.run *)

\* sys.exit(code)
Exit(code) == [r |-> "exit", code |-> code]

\* what main does when it is called
MainOutcomes == {Return(V("result")), Return(NONE), Raise("Exception", EmptyStr)}

\* the command lines given to run
RunArgLists ==
    { <<>>, <<KeyValue(a, W("1"))>>, <<W("-h")>>, <<W("-C")>>, <<W("-x")>>,
      <<DashDash, W("other")>> }

\* what the set up of the configuration ends with: the arguments are
\* parsed, the parsed result is handled, and the configuration is resolved,
\* which raises when a mandatory value is missing
setup_event(arguments, missing) ==
    LET parsed == ArgumentParser_parse_args(arguments)
        handled == handle_parsed_result(parsed.v)
    IN  IF parsed.r = "raise" THEN parsed.exc
        ELSE IF handled.r = "raise" THEN handled.exc
        ELSE IF missing THEN "MissingMandatoryValue"
        ELSE "ok"

\* Application.run(main, arguments, should_exit=should_exit)
Application_run(event, main, should_exit, testing) ==
    IF event \in {"MissingMandatoryValue", "ArgumentError"}
    THEN IF should_exit
         THEN Exit(IF event = "MissingMandatoryValue" THEN 99 ELSE 2)
         ELSE Raise(event, EmptyStr)
    ELSE IF event = "ExitApplication"
    THEN IF should_exit THEN Exit(0) ELSE Return(NONE)
    ELSE IF testing THEN Return(NONE)
    ELSE IF main.r = "return" THEN main
    ELSE IF should_exit THEN Exit(1) ELSE main

\* cli.run(main, arguments, should_exit=should_exit): the outcomes it can
\* have.  The arguments are parsed by an argparse parser made with
\* exit_on_error=should_exit: its help and ShowConfigurationAction call
\* parser.exit(), and an error in the arguments ends in parser.error() or,
\* without exit_on_error, in an ArgumentError, depending on the error and on
\* the version of argparse.  The handlers of ArgumentError and
\* ExitApplication are inside a string literal, and an exception of main is
\* raised again.
cli_run(event, main, should_exit, testing) ==
    IF event = "MissingMandatoryValue"
    THEN {IF should_exit THEN Exit(99) ELSE Raise(event, EmptyStr)}
    ELSE IF event = "ArgumentError"
    THEN IF should_exit THEN {Exit(2)} ELSE {Exit(2), Raise(event, EmptyStr)}
    ELSE IF event = "ExitApplication"
    THEN {Exit(0)}
    ELSE IF testing THEN {Return(NONE)}
    ELSE {main}

InitRun ==
    /\ alive = {"P"}
    /\ c = [cfg \in Cfgs |-> EmptyMap]
    /\ helpersRef = HelpersCell
    /\ typePathRef = TypePathCell
    /\ heap = [cell \in 1..4 |-> IF cell \in {2, 4} THEN NoTypePath ELSE NoHelpers]
    /\ type_value = [cfg \in Cfgs |-> TypeValueDict(<<>>)]
    /\ lastSetup = SetupIdle
    /\ call = CallIdle
    /\ nops = 0
    /\ mIn = [i \in 1..NTrees |-> EmptyMap]
    /\ mStep = MergeIdle
    /\ mOnce = OnceIdle
    /\ fIn = FindIdle
    /\ fOut = NoResult
    /\ appIn = AppIdle
    /\ app = AppIdle
    /\ eIn = EnvIdle
    /\ eOut = EnvNoResult

\* a call of a run wrapper, with its outcome
RunCall(wrapper, arguments, missing, main, should_exit, testing, out) ==
    /\ call' = [op |-> "run", wrapper |-> wrapper, arguments |-> arguments,
                event |-> setup_event(arguments, missing), main |-> main,
                should_exit |-> should_exit, testing |-> testing, out |-> out]
    /\ UNCHANGED <<alive, c, helpersRef, typePathRef, heap, type_value, lastSetup,
                   nops, mergeVars, findVars, appVars, envVars>>

\* app.run(main, arguments, should_exit=should_exit)
RunApplication ==
    /\ call.op = "none"
    /\ \E arguments \in RunArgLists, missing \in BOOLEAN, main \in MainOutcomes,
          should_exit \in BOOLEAN, testing \in BOOLEAN :
          RunCall("Application.run", arguments, missing, main, should_exit, testing,
                  Application_run(setup_event(arguments, missing), main,
                                  should_exit, testing))

\* alphaconf.cli.run(main, arguments, should_exit=should_exit)
RunCli ==
    /\ call.op = "none"
    /\ \E arguments \in RunArgLists, missing \in BOOLEAN, main \in MainOutcomes,
          should_exit \in BOOLEAN, testing \in BOOLEAN :
          \E out \in cli_run(setup_event(arguments, missing), main, should_exit, testing) :
              RunCall("cli.run", arguments, missing, main, should_exit, testing, out)

NextRun == RunApplication \/ RunCli

SpecRun == InitRun /\ [][NextRun]_vars

\* main was called and raised
MainRaised == call.event = "ok" /\ ~call.testing /\ call.main.r = "raise"

\* C19: with should_exit a run ends in exit code 0 for a normal early exit,
\* 2 for an argument error, 99 for a missing mandatory value and 1 for an
\* exception of main, and a success returns; without should_exit a run never
\* exits: the exception is raised to the caller, and a normal early exit
\* returns None.
C19_ExitCodes ==
    call.op = "run" =>
        IF call.should_exit
        THEN /\ call.event = "ExitApplication" => call.out = Exit(0)
             /\ call.event = "ArgumentError" => call.out = Exit(2)
             /\ call.event = "MissingMandatoryValue" => call.out = Exit(99)
             /\ MainRaised => call.out = Exit(1)
             /\ (call.event = "ok" /\ ~MainRaised) => call.out.r = "return"
        ELSE /\ call.out.r # "exit"
             /\ call.event \in {"ArgumentError", "MissingMandatoryValue"} =>
                   call.out = Raise(call.event, EmptyStr)
             /\ MainRaised => call.out = call.main
             /\ call.event = "ExitApplication" => call.out = Return(NONE)

----------------------------------------------------------------------------
(* Application.setup_configuration called more than once *)

MaxCalls == 3

\* self.__config is None
NoConfig == [k |-> "None"]

\* the command lines of the calls
OnceArgLists ==
    { <<>>,
      <<[opt |-> "", value |-> KeyValue(a, <<"c">>)]>>,
      <<[opt |-> "", value |-> a]>> }

\* the global configuration at the time of a call
OnceDefaults == { M(a :> V("d")), M((a :> V("d")) @@ (b :> M(x :> V("d")))) }

\* no environment variable
NoEnviron == [name \in {} |-> <<>>]

\* Application.setup_configuration(arguments=arguments) of
\* alphaconf/internal/application.py on the application self = [config,
\* parsed], with the global configuration ctx: the arguments are parsed, a
\* new Configuration takes the place of self.__config, the sources are merged
\* into it and the parsed result is handled
Application_setup_configuration(self, ctx, arguments) ==
    LET parsed == parse_args(arguments)
        merged == Configuration_merge(ctx, get_configurations(ctx, <<>>, NoEnviron,
                                                              parsed.v))
    IN  IF parsed.r = "raise"
        THEN [config |-> self.config, parsed |-> self.parsed, out |-> parsed]
        ELSE IF IsErr(merged)
        THEN [config |-> ctx, parsed |-> parsed.v,
              out |-> Raise("TypeError", EmptyStr)]
        ELSE [config |-> merged, parsed |-> parsed.v, out |-> Return(NONE)]

\* Application.setup_configuration(arguments) of alphaconf/__init__.py:
\* it raises when self.__config is set
Application_setup_configuration_init(self, ctx, arguments) ==
    IF self.config # NoConfig
    THEN [config |-> self.config, parsed |-> self.parsed,
          out |-> Raise("RuntimeError", <<"Configuration already set">>)]
    ELSE Application_setup_configuration(self, ctx, arguments)

\* the property Application.configuration: the configuration is set up
\* without arguments when it is not set
Application_configuration(self, ctx) ==
    IF self.config = NoConfig
    THEN LET r == Application_setup_configuration(self, ctx, <<>>)
         IN  [config |-> r.config, parsed |-> r.parsed,
              out |-> IF r.out.r = "raise" THEN r.out ELSE Return(r.config)]
    ELSE [config |-> self.config, parsed |-> self.parsed, out |-> Return(self.config)]

InitOnce ==
    /\ app = [config |-> NoConfig, parsed |-> NONE]
    /\ appIn = [config |-> NoConfig, parsed |-> NONE]
    /\ call = CallIdle
    /\ nops = 0
    /\ alive = {}
    /\ c = <<>>
    /\ helpersRef = <<>>
    /\ typePathRef = <<>>
    /\ heap = <<>>
    /\ type_value = <<>>
    /\ lastSetup = SetupIdle
    /\ mIn = [i \in 1..NTrees |-> EmptyMap]
    /\ mStep = MergeIdle
    /\ mOnce = OnceIdle
    /\ fIn = FindIdle
    /\ fOut = NoResult
    /\ eIn = EnvIdle
    /\ eOut = EnvNoResult

\* a call on the application, with the configuration it found and its outcome
OnceCall(op, before, r) ==
    /\ nops < MaxCalls
    /\ nops' = nops + 1
    /\ call' = [op |-> op, before |-> before, config |-> r.config, out |-> r.out]
    /\ UNCHANGED <<alive, c, helpersRef, typePathRef, heap, type_value, lastSetup,
                   mergeVars, findVars, envVars>>

\* app.setup_configuration(arguments=arguments), alphaconf/internal/application.py
OnceSetup ==
    /\ nops < MaxCalls
    /\ \E ctx \in OnceDefaults, arguments \in OnceArgLists :
          LET r == Application_setup_configuration(app, ctx, arguments)
          IN  /\ app' = [config |-> r.config, parsed |-> r.parsed]
              /\ OnceCall("setup", app.config, r)
    /\ UNCHANGED appIn

\* app.configuration, alphaconf/internal/application.py
OnceConfiguration ==
    /\ nops < MaxCalls
    /\ \E ctx \in OnceDefaults :
          LET r == Application_configuration(app, ctx)
          IN  /\ app' = [config |-> r.config, parsed |-> r.parsed]
              /\ OnceCall("configuration", app.config, r)
    /\ UNCHANGED appIn

\* app.setup_configuration(arguments) of the application of alphaconf/__init__.py,
\* kept in appIn
OnceSetupInit ==
    /\ nops < MaxCalls
    /\ \E ctx \in OnceDefaults, arguments \in OnceArgLists :
          LET r == Application_setup_configuration_init(appIn, ctx, arguments)
          IN  /\ appIn' = [config |-> r.config, parsed |-> r.parsed]
              /\ OnceCall("setup_init", appIn.config, r)
    /\ UNCHANGED app

NextOnce == OnceSetup \/ OnceConfiguration \/ OnceSetupInit

SpecOnce == InitOnce /\ [][NextOnce]_vars

\* the call found the configuration set
AlreadySet == call.before # NoConfig

\* C21: when the configuration of the application is already set, a call of
\* Application.setup_configuration raises 'Configuration already set' and
\* leaves the configuration of the application unchanged.
C21_SetupOnce ==
    (call.op = "setup" /\ AlreadySet) =>
        /\ call.out = Raise("RuntimeError", <<"Configuration already set">>)
        /\ call.config = call.before

\* the setup_configuration of alphaconf/__init__.py does so
C21_SetupOnceInit ==
    (call.op = "setup_init" /\ AlreadySet) =>
        /\ call.out = Raise("RuntimeError", <<"Configuration already set">>)
        /\ call.config = call.before

----------------------------------------------------------------------------
(* The Configuration only grows *)

\* the keys of the helpers of the Configuration cfg
HelperKeysOf(cells, dicts, cfg) == DOMAIN dicts[cells[cfg]]

\* C22: over any sequence of setup_configuration calls, a top-level key once
\* present in the tree of a Configuration is never removed, and a helpers
\* entry once added is never removed.
C22_AdditiveOnly ==
    [][\A cfg \in alive :
          /\ Keys(c[cfg]) \subseteq Keys(c'[cfg])
          /\ HelperKeysOf(helpersRef, heap, cfg)
                \subseteq HelperKeysOf(helpersRef', heap', cfg)]_vars

\* a second setup_configuration added a top-level key and a helper to a tree
\* that had a key and a helper
C22_Witness ==
    /\ call.op = "setup"
    /\ call.out.r = "return"
    /\ lastSetup.pre # EmptyMap
    /\ Keys(lastSetup.pre) # Keys(c["P"])
    /\ Keys(lastSetup.pre) \subseteq Keys(c["P"])
    /\ Cardinality(HelperKeysOf(helpersRef, heap, "P")) >= 2

----------------------------------------------------------------------------
(* The resolution of the tree at startup *)

\* the node with each interpolation replaced by the node it selects from
\* root, None when there is none or when it holds '???'; a node of the tree
\* that holds '???' is left as it is
RECURSIVE ResolveNode(_, _)
ResolveNode(root, node) ==
    IF IsInterp(node)
    THEN LET target == SelectParts(root, Split(node.key, DOT))
         IN  IF target \in {NotFound, MANDATORY} THEN NONE
             ELSE ResolveNode(root, target)
    ELSE IF IsMap(node) THEN M([key \in Keys(node) |-> ResolveNode(root, node.m[key])])
    ELSE IF IsList(node) THEN L([i \in DOMAIN node.l |-> ResolveNode(root, node.l[i])])
    ELSE node

\* OmegaConf.resolve(cfg): the interpolations are resolved in place; the
\* mandatory markers of the tree raise nothing
OmegaConf_resolve(cfg) == ResolveNode(cfg, cfg)

\* OmegaConf.missing_keys(cfg)
OmegaConf_missing_keys(cfg) == MissingKeys(cfg, EmptyStr)

\* the merged configurations at startup
StartTrees ==
    { M(a :> V("1")),
      M((a :> V("1")) @@ (b :> Interp(a))),
      M(a :> MANDATORY),
      M((a :> V("1")) @@ (b :> M(x :> MANDATORY))),
      M((a :> MANDATORY) @@ (b :> M(x :> MANDATORY))),
      M((a :> MANDATORY) @@ (b :> M((x :> MANDATORY) @@ (y :> MANDATORY)))) }

\* the end of Application.setup_configuration(resolve_configuration=resolve)
\* of alphaconf/internal/application.py on the merged tree: what it raises
\* and the tree it leaves
setup_resolve(tree, resolve) ==
    IF ~resolve THEN [config |-> tree, out |-> Return(NONE)]
    ELSE [config |-> OmegaConf_resolve(tree), out |-> Return(NONE)]

\* the end of Application.setup_configuration(resolve_configuration=resolve)
\* of alphaconf/__init__.py: self.get_config() gives OmegaConf.to_object of
\* the tree, which raises at a node that holds '???' and names that node
setup_resolve_init(tree, resolve) ==
    IF ~resolve THEN {Return(NONE)}
    ELSE IF OmegaConf_missing_keys(tree) # {}
    THEN {Raise("MissingMandatoryValue", key) : key \in OmegaConf_missing_keys(tree)}
    ELSE {Return(NONE)}

\* a run: the outcome, whether main was called and the missing keys that
\* were reported, in the error or in the log
StartOutcome(out, main_ran, reported) ==
    [out |-> out, main_ran |-> main_ran, reported |-> reported]

\* Application.run(main, should_exit=should_exit,
\* resolve_configuration=resolve) of alphaconf/__init__.py when the set up
\* ends in setup
Application_run_start(setup, main, should_exit) ==
    IF setup.r = "raise"
    THEN StartOutcome(IF should_exit /\ setup.exc = "MissingMandatoryValue"
                      THEN Exit(99) ELSE setup,
                      FALSE,
                      IF setup.exc = "MissingMandatoryValue" THEN {setup.key} ELSE {})
    ELSE StartOutcome(Application_run("ok", main, should_exit, FALSE), TRUE, {})

\* alphaconf.cli.run(main, should_exit=should_exit) on the tree that the set
\* up leaves: each missing key is logged as a warning, then main is called
cli_run_start(setup, main) ==
    IF setup.out.r = "raise" THEN StartOutcome(setup.out, FALSE, {})
    ELSE StartOutcome(main, TRUE, OmegaConf_missing_keys(setup.config))

InitStart ==
    /\ call = CallIdle
    /\ nops = 0
    /\ alive = {}
    /\ c = <<>>
    /\ helpersRef = <<>>
    /\ typePathRef = <<>>
    /\ heap = <<>>
    /\ type_value = <<>>
    /\ lastSetup = SetupIdle
    /\ mIn = [i \in 1..NTrees |-> EmptyMap]
    /\ mStep = MergeIdle
    /\ mOnce = OnceIdle
    /\ fIn = FindIdle
    /\ fOut = NoResult
    /\ appIn = AppIdle
    /\ app = AppIdle
    /\ eIn = EnvIdle
    /\ eOut = EnvNoResult

\* a run on the merged tree, with its outcome
StartCall(wrapper, tree, resolve, main, should_exit, r) ==
    /\ call' = [op |-> "start", wrapper |-> wrapper, tree |-> tree,
                resolve |-> resolve, main |-> main, should_exit |-> should_exit,
                out |-> r.out, main_ran |-> r.main_ran, reported |-> r.reported]
    /\ UNCHANGED <<alive, c, helpersRef, typePathRef, heap, type_value, lastSetup,
                   nops, mergeVars, findVars, appVars, envVars>>

\* app.run(main, should_exit=should_exit, resolve_configuration=resolve)
StartApplication ==
    /\ call.op = "none"
    /\ \E tree \in StartTrees, resolve \in BOOLEAN, main \in MainOutcomes,
          should_exit \in BOOLEAN :
          \E setup \in setup_resolve_init(tree, resolve) :
              StartCall("Application.run", tree, resolve, main, should_exit,
                        Application_run_start(setup, main, should_exit))

\* alphaconf.cli.run(main, should_exit=should_exit), the configuration set up
\* by Application.setup_configuration(resolve_configuration=resolve)
StartCli ==
    /\ call.op = "none"
    /\ \E tree \in StartTrees, resolve \in BOOLEAN, main \in MainOutcomes,
          should_exit \in BOOLEAN :
          StartCall("cli.run", tree, resolve, main, should_exit,
                    cli_run_start(setup_resolve(tree, resolve), main))

NextStart == StartApplication \/ StartCli

SpecStart == InitStart /\ [][NextStart]_vars

\* the merged tree holds a mandatory marker and resolution is enabled
StartsMissing ==
    call.op = "start" /\ call.resolve /\ OmegaConf_missing_keys(call.tree) # {}

\* C23: when the merged configuration still contains mandatory markers at
\* startup and resolution is enabled, the startup fails before main is
\* invoked, and the failure reports every missing mandatory key of the tree.
C23_FailsFastReportsAll ==
    StartsMissing =>
        /\ call.out.r # "return"
        /\ ~call.main_ran
        /\ call.reported = OmegaConf_missing_keys(call.tree)

\* Application.run of alphaconf/__init__.py fails before main and reports
\* one of the missing keys
C23_RunFailsFast ==
    (StartsMissing /\ call.wrapper = "Application.run") =>
        /\ call.out.r # "return"
        /\ ~call.main_ran
        /\ Cardinality(call.reported) = 1
        /\ call.reported \subseteq OmegaConf_missing_keys(call.tree)

\* cli.run calls main and logs all the missing keys
C23_CliRunsMain ==
    (StartsMissing /\ call.wrapper = "cli.run") =>
        /\ call.main_ran
        /\ call.out = call.main
        /\ call.reported = OmegaConf_missing_keys(call.tree)

----------------------------------------------------------------------------
(* alphaconf.inject: the wrappers that inject default parameters *)

MaxInjects == 2

\* inspect.Parameter.empty
Empty == [k |-> "empty"]

\* an inspect.Parameter: kind is "pos" for a positional or keyword
\* parameter, "kwonly" for a keyword only one and "varkw" for **name
Param(name, kind, default, annotation) ==
    [name |-> name, kind |-> kind, default |-> default, annotation |-> annotation]

kw_name == W("kw")
g == W("g")
\* inspect.signature(func) of the functions that are wrapped:
\* def mytuple(a: int, b=1, *, x, y: int = 1), and def kwfunc(**kw)
Signature ==
    [mytuple |-> <<Param(a, "pos", Empty, IntType), Param(b, "pos", V("1"), NoType),
                   Param(x, "kwonly", Empty, NoType),
                   Param(y, "kwonly", V("1"), IntType)>>,
     kwfunc |-> <<Param(kw_name, "varkw", Empty, NoType)>>]
Functions == DOMAIN Signature

ParamNames(sig) == {sig[i].name : i \in DOMAIN sig}
ParamOf(sig, name) == sig[CHOOSE i \in DOMAIN sig : sig[i].name = name]
Positional(sig) == SelectSeq(sig, LAMBDA p : p.kind = "pos")
NamedParams(sig) == {sig[i].name : i \in {j \in DOMAIN sig : sig[j].kind # "varkw"}}
VarKw(sig) == {sig[i].name : i \in {j \in DOMAIN sig : sig[j].kind = "varkw"}}

\* the value of a **name parameter
KwArgs(d) == [k |-> "kwargs", d |-> d]

\* Signature.bind_partial(*pos, **kw).arguments: the positional values are
\* given to the first positional parameters, each keyword to the parameter
\* of its name, and the keywords that name no parameter are collected under
\* the name of the ** parameter
bind_partial(sig, pos, kw) ==
    LET positional == Positional(sig)
        byPos == {positional[i].name : i \in 1..Len(pos)}
        extra == DOMAIN kw \ NamedParams(sig)
        named == DOMAIN kw \cap NamedParams(sig)
    IN  IF Len(pos) > Len(positional) THEN Raise("TypeError", EmptyStr)
        ELSE IF byPos \cap DOMAIN kw # {} THEN Raise("TypeError", EmptyStr)
        ELSE IF extra # {} /\ VarKw(sig) = {} THEN Raise("TypeError", EmptyStr)
        ELSE Return([name \in byPos \cup named \cup (IF extra # {} THEN VarKw(sig) ELSE {}) |->
                        IF name \in byPos
                        THEN pos[CHOOSE i \in 1..Len(pos) : positional[i].name = name]
                        ELSE IF name \in named THEN kw[name]
                        ELSE KwArgs([key \in extra |-> kw[key]])])

\* func(*pos, **kw) for a function that returns its parameters: the
\* defaults are applied, and a parameter without value raises TypeError
call_func(sig, pos, kw) ==
    LET bound == bind_partial(sig, pos, kw)
    IN  IF bound.r = "raise" THEN bound
        ELSE IF \E i \in DOMAIN sig :
                   /\ sig[i].kind # "varkw"
                   /\ sig[i].default = Empty
                   /\ sig[i].name \notin DOMAIN bound.v
        THEN Raise("TypeError", EmptyStr)
        ELSE Return([name \in ParamNames(sig) |->
                        IF name \in DOMAIN bound.v THEN bound.v[name]
                        ELSE IF name \in VarKw(sig) THEN KwArgs(<<>>)
                        ELSE ParamOf(sig, name).default])

\* the factories: lambda: value, and what getter returns
Const(value) == [kind |-> "const", v |-> value]
Getter(key, ktype, default) ==
    [kind |-> "getter", key |-> key, ktype |-> ktype, default |-> default]

\* getter(key, param=param): the type to cast to is the annotation of the
\* parameter, and the default of the parameter stands for a value None
getter(key, param) == Getter(key, param.annotation, param.default)

\* factory() on the configuration conf: alphaconf.get(key, ktype,
\* default=None) and the default of the parameter when it gives None, or
\* alphaconf.get(key, ktype) for a parameter without default
call_factory(conf, factory) ==
    IF factory.kind = "const" THEN Return(factory.v)
    ELSE IF factory.default # Empty
    THEN LET value == Configuration_get(conf, factory.key, factory.ktype, NONE)
         IN  IF value.r = "return" /\ value.v = NONE THEN Return(factory.default)
             ELSE value
    ELSE Configuration_get(conf, factory.key, factory.ktype, raise_on_missing)

\* the dict comprehension of __call__ over the entries of _arg_factory that
\* are left: the values of the factories by name, with the names of the
\* factories that were called; the first factory that raises ends it
RECURSIVE call_factories(_, _, _, _)
call_factories(conf, entries, values, called) ==
    IF Len(entries) = 0 THEN [out |-> Return(values), called |-> called]
    ELSE LET r == call_factory(conf, entries[1].factory)
         IN  IF r.r = "raise"
             THEN [out |-> r, called |-> called \cup {entries[1].name}]
             ELSE call_factories(conf, Tail(entries),
                                 (entries[1].name :> r.v) @@ values,
                                 called \cup {entries[1].name})

\* a __call__ that calls every factory and lets the factory win
ParamDefaultsFunction_call_Always(self, conf, pos, kw) ==
    LET args == bind_partial(Signature[self.func], pos, kw)
        made == call_factories(conf, self.arg_factory, <<>>, {})
    IN  IF args.r = "raise" THEN [out |-> args, called |-> {}]
        ELSE IF made.out.r = "raise" THEN made
        ELSE [out |-> call_func(Signature[self.func], pos, made.out.v @@ kw),
              called |-> made.called]

\* ParamDefaultsFunction.__call__(*pos, **kw) on the wrapper self = [func,
\* arg_factory]: the factories of the names that bind_partial does not give
\* are called, their values are added to kw, and func is called
ParamDefaultsFunction_call(self, conf, pos, kw) ==
    LET args == bind_partial(Signature[self.func], pos, kw)
        made == call_factories(conf,
                               SelectSeq(self.arg_factory,
                                         LAMBDA entry : entry.name \notin DOMAIN args.v),
                               <<>>, {})
    IN  IF args.r = "raise" THEN [out |-> args, called |-> {}]
        ELSE IF made.out.r = "raise" THEN made
        ELSE [out |-> call_func(Signature[self.func], pos, made.out.v @@ kw),
              called |-> made.called]

\* ParamDefaultsFunction.bind(name, factory): self._arg_factory[name] = factory
ParamDefaultsFunction_bind(arg_factory, name, factory) ==
    IF \E i \in DOMAIN arg_factory : arg_factory[i].name = name
    THEN [i \in DOMAIN arg_factory |->
            IF arg_factory[i].name = name THEN [name |-> name, factory |-> factory]
            ELSE arg_factory[i]]
    ELSE Append(arg_factory, [name |-> name, factory |-> factory])

\* what is decorated: a function of Signature, or a wrapper, which is a
\* reference to an object of the heap
Fn(name) == [k |-> "function", name |-> name]
Ref(i) == [k |-> "wrapper", ref |-> i]
IsWrapper(func) == func.k = "wrapper"
FuncOf(objects, func) == IF IsWrapper(func) THEN objects[func.ref].func ELSE func.name

\* a wrap that makes a new wrapper with the bindings of the one it is given
wrap_Copy(objects, func) ==
    [ref |-> Len(objects) + 1,
     objects |-> Append(objects,
                        IF IsWrapper(func) THEN objects[func.ref]
                        ELSE [func |-> func.name, arg_factory |-> <<>>])]

\* ParamDefaultsFunction.wrap(func): a wrapper is returned as it is, a
\* function gets a new wrapper
wrap(objects, func) ==
    IF IsWrapper(func) THEN [ref |-> func.ref, objects |-> objects]
    ELSE [ref |-> Len(objects) + 1,
          objects |-> Append(objects, [func |-> func.name, arg_factory |-> <<>>])]

\* the bindings of a list of <<name, factory>> added to the wrapper ref
RECURSIVE BindAll(_, _, _)
BindAll(objects, ref, bindings) ==
    IF Len(bindings) = 0 THEN objects
    ELSE BindAll([objects EXCEPT ![ref].arg_factory =
                     ParamDefaultsFunction_bind(@, bindings[1].name, bindings[1].factory)],
                 ref, Tail(bindings))

\* a str given as factory: the key of the configuration
Key(key) == [kind |-> "key", key |-> key]

\* inject(name, factory)(func): factory is a Const, or the key of the
\* configuration (EmptyStr for None, which stands for the name)
inject(objects, func, name, factory) ==
    LET f == wrap(objects, func)
        sig == Signature[FuncOf(objects, func)]
    IN  IF factory.kind = "key"
        THEN IF name \notin ParamNames(sig)
             THEN [out |-> Raise("KeyError", name), objects |-> objects]
             ELSE [out |-> Return(f.ref),
                   objects |-> BindAll(f.objects, f.ref,
                                  <<[name |-> name,
                                     factory |-> getter(IF factory.key = EmptyStr THEN name
                                                        ELSE factory.key,
                                                        ParamOf(sig, name))]>>)]
        ELSE [out |-> Return(f.ref),
              objects |-> BindAll(f.objects, f.ref,
                                  <<[name |-> name, factory |-> factory]>>)]

\* inject_auto(prefix=prefix, ignore=ignore)(func)
inject_auto(objects, func, prefix, ignore) ==
    LET f == wrap(objects, func)
        sig == Signature[FuncOf(objects, func)]
        params == SelectSeq(sig, LAMBDA p : p.name \notin ignore)
    IN  [out |-> Return(f.ref),
         objects |-> BindAll(f.objects, f.ref,
                             [i \in DOMAIN params |->
                                 [name |-> params[i].name,
                                  factory |-> getter(PrefixPath(prefix) \o params[i].name,
                                                     params[i])]])]

\* the configuration of the current application
InjectTrees ==
    { M((a :> V("1")) @@ (b :> V("2")) @@ (x :> V("3")) @@ (y :> V("3"))
        @@ (g :> V("0"))),
      M((b :> NONE) @@ (y :> V("abc")) @@ (W("p") :> M(x :> V("3")))) }

\* the decorations: inject(name, factory) and inject_auto(prefix, ignore)
Injections ==
    { [name |-> a, factory |-> Const(V("5"))],
      [name |-> x, factory |-> Const(V("5"))],
      [name |-> a, factory |-> Key(g)],
      [name |-> b, factory |-> Key(EmptyStr)],
      [name |-> x, factory |-> Key(EmptyStr)] }
AutoInjections ==
    { [prefix |-> EmptyStr, ignore |-> {}], [prefix |-> W("p"), ignore |-> {a, y}] }

\* the arguments of the calls of a wrapper
CallArguments ==
    { [pos |-> <<>>, kw |-> <<>>],
      [pos |-> <<V("0")>>, kw |-> (x :> V("2"))],
      [pos |-> <<>>, kw |-> (a :> V("0"))],
      [pos |-> <<V("0"), V("0")>>, kw |-> <<>>],
      [pos |-> <<>>, kw |-> (x :> V("2"))] }

InitInject ==
    /\ alive = {"P"}
    /\ c \in [{"P"} -> InjectTrees]
    /\ heap = <<>>
    /\ call = CallIdle
    /\ nops = 0
    /\ helpersRef = <<>>
    /\ typePathRef = <<>>
    /\ type_value = <<>>
    /\ lastSetup = SetupIdle
    /\ mIn = [i \in 1..NTrees |-> EmptyMap]
    /\ mStep = MergeIdle
    /\ mOnce = OnceIdle
    /\ fIn = FindIdle
    /\ fOut = NoResult
    /\ appIn = AppIdle
    /\ app = AppIdle
    /\ eIn = EnvIdle
    /\ eOut = EnvNoResult

\* what can be decorated: a function, or a wrapper made earlier
Targets == {Fn(name) : name \in Functions} \cup {Ref(i) : i \in DOMAIN heap}

\* a decoration that gave r, as a step
Decorate(op, func, in, r) ==
    /\ nops < MaxInjects
    /\ nops' = nops + 1
    /\ heap' = r.objects
    /\ call' = [op |-> op, func |-> func, in |-> in, out |-> r.out, before |-> heap]
    /\ UNCHANGED <<alive, c, helpersRef, typePathRef, type_value, lastSetup,
                   mergeVars, findVars, appVars, envVars>>

\* inject(name, factory)(func)
Inject ==
    /\ nops < MaxInjects
    /\ \E func \in Targets, in \in Injections :
          Decorate("inject", func, in, inject(heap, func, in.name, in.factory))

\* inject_auto(prefix=prefix, ignore=ignore)(func)
InjectAuto ==
    /\ nops < MaxInjects
    /\ \E func \in Targets, in \in AutoInjections :
          Decorate("inject_auto", func, in, inject_auto(heap, func, in.prefix, in.ignore))

\* wrapper(*pos, **kw)
CallWrapper ==
    /\ heap # <<>>
    /\ \E ref \in DOMAIN heap, args \in CallArguments :
          LET r == ParamDefaultsFunction_call(heap[ref], c["P"], args.pos, args.kw)
          IN  call' = [op |-> "call", ref |-> ref, pos |-> args.pos, kw |-> args.kw,
                       out |-> r.out, called |-> r.called]
    /\ UNCHANGED <<alive, c, helpersRef, typePathRef, heap, type_value, lastSetup, nops,
                   mergeVars, findVars, appVars, envVars>>

NextInject == Inject \/ InjectAuto \/ CallWrapper

SpecInject == InitInject /\ [][NextInject]_vars

\* the wrapper that was called and the signature of its function
CalledWrapper == heap[call.ref]
CalledSig == Signature[CalledWrapper.func]

\* the names the caller gave a value to: the parameters of the positional
\* values, the keywords, and the ** parameter when a keyword goes to it
PassedNames ==
    LET positional == Positional(CalledSig)
    IN  {positional[i].name : i \in 1..Len(call.pos) \cap DOMAIN positional}
        \cup DOMAIN call.kw
        \cup (IF DOMAIN call.kw \ NamedParams(CalledSig) # {}
              THEN VarKw(CalledSig) ELSE {})

\* the call gives the function no value twice and no keyword it does not take
ValidCall ==
    call.op = "call" /\ bind_partial(CalledSig, call.pos, call.kw).r = "return"

\* the value the caller passed for name, and the value the function got
PassedValue(name) ==
    IF name \in DOMAIN call.kw THEN call.kw[name]
    ELSE IF name \in VarKw(CalledSig)
    THEN KwArgs([key \in DOMAIN call.kw \ NamedParams(CalledSig) |-> call.kw[key]])
    ELSE call.pos[CHOOSE i \in 1..Len(call.pos) : Positional(CalledSig)[i].name = name]
ResultOf(name) ==
    IF name \in ParamNames(CalledSig) THEN call.out.v[name]
    ELSE call.out.v[CHOOSE kw \in VarKw(CalledSig) : TRUE].d[name]

\* the bindings to a configuration key of the names that were not passed
UnpassedGetters ==
    {i \in DOMAIN CalledWrapper.arg_factory :
        /\ CalledWrapper.arg_factory[i].factory.kind = "getter"
        /\ CalledWrapper.arg_factory[i].name \notin PassedNames}
BoundName(i) == CalledWrapper.arg_factory[i].name
BoundGetter(i) == CalledWrapper.arg_factory[i].factory
ConfValue(i) == OmegaConf_select(c["P"], BoundGetter(i).key)
\* the key is absent and the parameter has no default
AbsentNoDefault(i) == ConfValue(i) = NotFound /\ BoundGetter(i).default = Empty

\* what the wrapper has to do with the arguments and the bindings
InjectContract ==
    /\ call.called \cap PassedNames = {}
    /\ call.out.r = "return" =>
          /\ \A name \in PassedNames : ResultOf(name) = PassedValue(name)
          /\ \A i \in UnpassedGetters :
                IF ConfValue(i) \in {NotFound, NONE}
                THEN BoundGetter(i).default # Empty
                     => ResultOf(BoundName(i)) = BoundGetter(i).default
                ELSE ResultOf(BoundName(i)) =
                        IF BoundGetter(i).ktype = NoType THEN ConfValue(i)
                        ELSE convert_to_type(ConfValue(i), BoundGetter(i).ktype).v
    /\ (\E i \in UnpassedGetters : AbsentNoDefault(i)) =>
          /\ call.out.r = "raise"
          /\ call.out.exc = "KeyError" =>
                \E i \in UnpassedGetters :
                    AbsentNoDefault(i) /\ call.out.key = BoundGetter(i).key
          /\ call.out.exc \in {"KeyError", "ValidationError"}

\* C24: a wrapped function calls a bound factory only for the parameters
\* the caller did not pass: a passed positional or keyword argument is used
\* as it is; an unpassed parameter bound to a configuration key gets the
\* configuration value, or its own default when that value is absent or
\* None; an absent key with no parameter default raises KeyError naming it.
C24_InjectDefaults == ValidCall => InjectContract

\* the same for the functions that have no ** parameter
C24_NamedParameters == (ValidCall /\ VarKw(CalledSig) = {}) => InjectContract

----------------------------------------------------------------------------
(* Decorating a wrapper again *)

\* inject or inject_auto was applied to a wrapper made earlier
DecoratedWrapper ==
    /\ call.op \in {"inject", "inject_auto"}
    /\ IsWrapper(call.func)
    /\ call.out.r = "return"

\* the names the decoration binds
InjectedNames ==
    IF call.op = "inject" THEN {call.in.name}
    ELSE ParamNames(Signature[call.before[call.func.ref].func]) \ call.in.ignore

\* the wrapper that was returned has a factory for each of these names
CarriesBinding ==
    \A name \in InjectedNames :
        \E i \in DOMAIN heap[call.out.v].arg_factory :
            heap[call.out.v].arg_factory[i].name = name

\* the statement that the wrapper obtained earlier keeps its bindings
C28_EarlierWrapperKept ==
    DecoratedWrapper =>
        /\ CarriesBinding
        /\ \A i \in DOMAIN call.before : heap[i] = call.before[i]

\* C28: applying inject or inject_auto to a wrapper binds the names in that
\* same wrapper and returns it: no wrapper is made, the wrapper obtained
\* earlier carries the additional binding from then on, its function and
\* the factories of its other names are not changed, and no other wrapper
\* is changed.
C28_SameWrapperBound ==
    DecoratedWrapper =>
        LET ref == call.func.ref
            old == call.before[ref].arg_factory
            new == heap[ref].arg_factory
        IN  /\ call.out.v = ref
            /\ DOMAIN heap = DOMAIN call.before
            /\ CarriesBinding
            /\ heap[ref].func = call.before[ref].func
            /\ \A i \in DOMAIN heap : i # ref => heap[i] = call.before[i]
            /\ \A i \in DOMAIN old :
                  /\ i \in DOMAIN new
                  /\ new[i].name = old[i].name
                  /\ old[i].name \notin InjectedNames => new[i] = old[i]

\* a wrapper with a binding was decorated again, and carries a new binding
C28_Witness ==
    /\ DecoratedWrapper
    /\ call.before[call.func.ref].arg_factory # <<>>
    /\ Len(heap[call.func.ref].arg_factory) > Len(call.before[call.func.ref].arg_factory)

----------------------------------------------------------------------------
(* The argument --select *)

default == W("default")
tmpl == W("t")
\* the global configurations: the templates default and t of base.a
SelectDefaults ==
    { M((base :> M(a :> M((default :> M(x :> V("0"))) @@ (tmpl :> M(x :> V("1"))))))
        @@ (a :> M(x :> V("d")))),
      M(base :> M(a :> M(tmpl :> M(x :> V("1"))))),
      M(base :> M((a :> M((default :> M(x :> V("0"))) @@ (tmpl :> M(x :> V("1")))))
                  @@ (b :> M(tmpl :> M(y :> V("2")))))),
      M((base :> M(a :> M((default :> V("s")) @@ (tmpl :> V("u")))))
        @@ (a :> V("d"))) }

\* the values given to --select
SelectValues ==
    { KeyValue(a, tmpl), a, a \o <<EQ>>, KeyValue(a, default),
      KeyValue(a, W("zz")), KeyValue(b, tmpl) }

\* the number of '=' of a str
CountEq(s) == Cardinality({i \in DOMAIN s : s[i] = EQ})

\* Application.setup_configuration(arguments=arguments) of
\* alphaconf/internal/application.py with the parser of alphaconf/arg_parser.py:
\* the tree it leaves and what it raises
setup_with_arguments(ctx, arguments) ==
    LET parsed == ArgumentParser_parse_args(arguments)
        merged == Configuration_merge(ctx, get_configurations(ctx, <<>>, NoEnviron,
                                                              parsed.v.config))
        handled == handle_parsed_result(parsed.v)
    IN  IF parsed.r = "raise" THEN [config |-> NoConfig, out |-> parsed]
        ELSE IF IsErr(merged)
        THEN [config |-> ctx, out |-> Raise("TypeError", EmptyStr)]
        ELSE IF handled.r = "raise" THEN [config |-> merged, out |-> handled]
        ELSE [config |-> OmegaConf_resolve(merged), out |-> Return(NONE)]

\* ConfigAction.__call__(parser, namespace, values, option_string) of
\* alphaconf/cli.py on the global configuration ctx: with an option string
\* the values are the path of a file, and a list of values has no
\* endswith; without, values[0] is created as a configuration
ConfigAction_call(ctx, values, option_string) ==
    IF option_string # EmptyStr
    THEN [config |-> ctx, out |-> Raise("AttributeError", W("endswith"))]
    ELSE LET merged == Configuration_merge(ctx, <<OmegaConf_from_dotlist(values)>>)
         IN  IF IsErr(merged) THEN [config |-> ctx, out |-> Raise("TypeError", EmptyStr)]
             ELSE [config |-> merged, out |-> Return(NONE)]

\* SelectConfigAction.__call__(parser, namespace, values, '--select') of
\* alphaconf/cli.py: values.split('=') is unpacked into key and value
SelectConfigAction_call(ctx, values) ==
    IF CountEq(values) # 1
    THEN [config |-> ctx, out |-> Raise("ValueError", EmptyStr)]
    ELSE ConfigAction_call(ctx, <<SelectArgument(values)>>, W("--select"))

InitSelect ==
    /\ alive = {"P"}
    /\ c \in [{"P"} -> SelectDefaults]
    /\ call = CallIdle
    /\ nops = 0
    /\ heap = <<>>
    /\ helpersRef = <<>>
    /\ typePathRef = <<>>
    /\ type_value = <<>>
    /\ lastSetup = SetupIdle
    /\ mIn = [i \in 1..NTrees |-> EmptyMap]
    /\ mStep = MergeIdle
    /\ mOnce = OnceIdle
    /\ fIn = FindIdle
    /\ fOut = NoResult
    /\ appIn = AppIdle
    /\ app = AppIdle
    /\ eIn = EnvIdle
    /\ eOut = EnvNoResult

\* a set up with --select value, as a step: the parsed configuration items,
\* the tree and the outcome
SelectCall(op, value, more, config, r) ==
    /\ call' = [op |-> op, value |-> value, more |-> more, parsed |-> config,
                config |-> r.config, out |-> r.out]
    /\ UNCHANGED <<alive, c, helpersRef, typePathRef, heap, type_value, lastSetup, nops,
                   mergeVars, findVars, appVars, envVars>>

\* the arguments that follow --select value
SelectMore == { <<>>, <<KeyValue(Dot(a, y), W("1"))>>, <<W("-h")>>, <<KeyValue(a, W("1"))>> }

\* app.setup_configuration(arguments=['--select', value] + more)
SelectSetup ==
    /\ call.op = "none"
    /\ \E value \in SelectValues, more \in SelectMore :
          LET arguments == <<W("--select"), value>> \o more
              parsed == ArgumentParser_parse_args(arguments)
          IN  SelectCall("setup", value, more,
                         IF parsed.r = "raise" THEN <<>> ELSE parsed.v.config,
                         setup_with_arguments(c["P"], arguments))

\* alphaconf.cli.run(main, ['--select', value]): the action of --select
SelectCli ==
    /\ call.op = "none"
    /\ \E value \in SelectValues :
          SelectCall("cli", value, <<>>, <<>>, SelectConfigAction_call(c["P"], value))

NextSelect == SelectSetup \/ SelectCli

SpecSelect == InitSelect /\ [][NextSelect]_vars

\* the key and the template of a value of --select, 'default' when the
\* template is missing or empty
SelectKey(value) ==
    IF FirstSep(value, EQ) = 0 THEN value ELSE SubSeq(value, 1, FirstSep(value, EQ) - 1)
SelectTemplate(value) ==
    IF FirstSep(value, EQ) \in {0, Len(value)} THEN default
    ELSE SubSeq(value, FirstSep(value, EQ) + 1, Len(value))
\* the sub-tree at base.key.template
TemplateTree(value) ==
    SelectParts(c["P"], <<base, SelectKey(value), SelectTemplate(value)>>)

\* what --select value has to do: the assignment is added, and the resolved
\* value of key is the sub-tree of the template
SelectContract ==
    /\ call.out.r = "return"
    /\ TemplateTree(call.value) # NotFound =>
          SelectParts(call.config, <<SelectKey(call.value)>>) = TemplateTree(call.value)

\* C25: '--select key=template' adds the configuration assignment
\* key=${oc.select:base.key.template}, so that the resolved value of key is
\* the sub-tree at base.key.template; when the template part is missing or
\* empty, the template 'default' is used.
C25_SelectTemplate ==
    (call.op \in {"setup", "cli"} /\ call.more = <<>>) => SelectContract

\* the parser of alphaconf/arg_parser.py does so
C25_SelectTemplateArgParser ==
    (call.op = "setup" /\ call.more = <<>>) =>
        /\ SelectContract
        /\ call.parsed =
              <<[type |-> "str",
                 s |-> SelectKey(call.value)
                       \o <<EQ, "${oc.select:base.">> \o SelectKey(call.value)
                       \o <<DOT>> \o SelectTemplate(call.value) \o <<"}">>]>>


----------------------------------------------------------------------------
(* The fragments of the command line, in the order of the arguments *)

MaxCmdArgs == 3

\* key=value arguments and -f files that set the keys a and b.x
CmdArguments ==
    { [opt |-> "", value |-> KeyValue(a, <<"c">>)],
      [opt |-> "", value |-> KeyValue(a, <<"???">>)],
      [opt |-> "", value |-> KeyValue(b_x, <<"c">>)],
      [opt |-> "-f", file |-> M(a :> V("f"))],
      [opt |-> "-f", file |-> M(b :> M(x :> V("g")))] }
CmdArgumentLists == UNION {[1..n -> CmdArguments] : n \in 0..MaxCmdArgs}

InitCmd ==
    /\ appIn \in [defaults : {M((a :> V("d")) @@ (b :> M(x :> V("d"))))},
                  files : {<<>>},
                  environ : {NoEnviron},
                  arguments : CmdArgumentLists]
    /\ app = [pc |-> "start"]
    /\ mIn = [i \in 1..NTrees |-> EmptyMap]
    /\ mStep = MergeIdle
    /\ mOnce = OnceIdle
    /\ fIn = FindIdle
    /\ fOut = NoResult
    /\ alive = {}
    /\ c = <<>>
    /\ helpersRef = <<>>
    /\ typePathRef = <<>>
    /\ heap = <<>>
    /\ type_value = <<>>
    /\ lastSetup = SetupIdle
    /\ call = CallIdle
    /\ nops = 0
    /\ eIn = EnvIdle
    /\ eOut = EnvNoResult

SpecCmd == InitCmd /\ [][NextApp]_vars

\* the argument at i starts a fragment: it is the first one, a file, or a
\* key=value that follows a file
StartsFragment(i) ==
    \/ i = 1
    \/ appIn.arguments[i].opt = "-f"
    \/ appIn.arguments[i - 1].opt = "-f"

\* the position, among the fragments, of the fragment of the argument at i
FragmentOf(i) == Cardinality({j \in 1..i : StartsFragment(j)})

\* the key and the value of the key=value argument at i
ArgKey(i) ==
    SubSeq(appIn.arguments[i].value, 1, FirstSep(appIn.arguments[i].value, EQ) - 1)
ArgValue(i) ==
    ParseValue(SubSeq(appIn.arguments[i].value,
                      FirstSep(appIn.arguments[i].value, EQ) + 1,
                      Len(appIn.arguments[i].value)))

\* the fragments are those of the arguments, in their order: the tree of a
\* file is a fragment of its own, and a key=value argument gives its value
\* to its fragment unless a later argument of the same fragment sets the key
InArgumentOrder ==
    /\ Len(CommandLine) = Cardinality({j \in 1..Len(appIn.arguments) : StartsFragment(j)})
    /\ \A i \in 1..Len(appIn.arguments) :
          IF appIn.arguments[i].opt = "-f"
          THEN CommandLine[FragmentOf(i)] = appIn.arguments[i].file
          ELSE \/ InCommandLine(ArgKey(i), FragmentOf(i)) = ArgValue(i)
               \/ \E j \in (i + 1)..Len(appIn.arguments) :
                     /\ FragmentOf(j) = FragmentOf(i)
                     /\ ArgKey(j) = ArgKey(i)

\* the values the fragments of the command line give to key, in their order
CmdGiven(key) == [i \in 1..Len(CommandLine) |-> InCommandLine(key, i)]

\* the fragments that hold key
Setting(key) == {i \in 1..Len(CommandLine) : InCommandLine(key, i) # NotFound}

----------------------------------------------------------------------------
(* Configuration.setup_configuration that raises *)

\* the step is a call of setup_configuration that raised
SetupRaised == call'.op = "setup" /\ nops' = nops + 1 /\ call'.out.r = "raise"

\* C27: a setup_configuration that raises leaves the registered state as it
\* was before the call: the tree, the helpers, the type bindings and the
\* cached typed values are unchanged.
C27_RaiseLeavesState ==
    [][SetupRaised => UNCHANGED <<c, heap, type_value>>]_vars


MaxRaiseSetups == 3

\* registrations that can fail: None, a list or a mapping at t, and the
\* schema types at the top and under the prefix t
RaiseInputs ==
    { [conf |-> NONE, kind |-> "dict", prefix |-> EmptyStr, helpers |-> NoHelpers],
      [conf |-> M(tPrefix :> L(<<V("1")>>)), kind |-> "dict", prefix |-> EmptyStr,
       helpers |-> NoHelpers],
      [conf |-> M(tPrefix :> M(x :> V("1"))), kind |-> "dict", prefix |-> EmptyStr,
       helpers |-> (tPrefix :> "Help")],
      [conf |-> TypedConfig, kind |-> "type", prefix |-> tPrefix, helpers |-> NoHelpers],
      [conf |-> TypedConfig, kind |-> "type", prefix |-> EmptyStr, helpers |-> NoHelpers],
      [conf |-> Person, kind |-> "type", prefix |-> tPrefix, helpers |-> NoHelpers] }

\* P.setup_configuration(conf, helpers, prefix=prefix)
SetupRaising ==
    /\ nops < MaxRaiseSetups
    /\ \E in \in RaiseInputs : SetupCall("P", in)

NextRaise == SetupRaising

SpecRaise == InitSetup /\ [][NextRaise]_vars

\* a setup_configuration that raises leaves the tree as it was
RaiseLeavesTree == [][SetupRaised => UNCHANGED c]_vars

\* setup_configuration(None) raises TypeError and changes nothing
RaiseOnNone ==
    [][(SetupRaised /\ lastSetup'.in.conf = NONE)
       => (call'.out.exc = "TypeError" /\ UNCHANGED <<c, heap, type_value>>)]_vars


----------------------------------------------------------------------------
(* The context variable application around Application.run *)

MaxRuns == 3
MaxDepth == 2

\* the context variable without a value, and with an Application as value
NoApplication == [k |-> "unset"]
TheApplication(name) == [k |-> "Application", name |-> name]
Applications == {TheApplication("A"), TheApplication("B")}

\* ContextVar.set(value): the new value of the variable and the token,
\* which holds the value the variable had
ContextVar_set(var, value) == [var |-> value, token |-> [old_value |-> var]]

\* a reset that leaves the variable without a value
ContextVar_reset_Clears(var, token) == NoApplication

\* ContextVar.reset(token): the variable has the value it had before the
\* set that made the token
ContextVar_reset(var, token) == token.old_value

\* the ways the set up of the configuration ends
SetupEvents == {"ok", "MissingMandatoryValue", "ArgumentError", "ExitApplication"}

\* the variable application is app; the calls of run whose main is running
\* are the frames of heap, the innermost last
InitCtx ==
    /\ app = NoApplication
    /\ heap = <<>>
    /\ call = CallIdle
    /\ nops = 0
    /\ appIn = AppIdle
    /\ alive = {}
    /\ c = <<>>
    /\ helpersRef = <<>>
    /\ typePathRef = <<>>
    /\ type_value = <<>>
    /\ lastSetup = SetupIdle
    /\ mIn = [i \in 1..NTrees |-> EmptyMap]
    /\ mStep = MergeIdle
    /\ mOnce = OnceIdle
    /\ fIn = FindIdle
    /\ fOut = NoResult
    /\ eIn = EnvIdle
    /\ eOut = EnvNoResult

ctxUnchanged ==
    UNCHANGED <<appIn, alive, c, helpersRef, typePathRef, type_value, lastSetup,
                mergeVars, findVars, envVars>>

\* self.run(main, ...) up to the call of main, when main is not called: the
\* set up raised or ended the application, or the testing configurations
\* are set.  The handlers exit, raise again or return before
\* application.set(self).
RunEarly ==
    /\ nops < MaxRuns
    /\ \E self \in Applications, event \in SetupEvents, should_exit \in BOOLEAN,
          testing \in BOOLEAN, main \in MainOutcomes :
          /\ event # "ok" \/ testing
          /\ call' = [op |-> "run", self |-> self, event |-> event,
                      testing |-> testing, before |-> app, main_ran |-> FALSE,
                      out |-> Application_run(event, main, should_exit, testing)]
    /\ nops' = nops + 1
    /\ UNCHANGED <<app, heap>>
    /\ ctxUnchanged

\* self.run(main, ...) up to the call of main: token = application.set(self)
RunMain ==
    /\ nops < MaxRuns
    /\ Len(heap) < MaxDepth
    /\ \E self \in Applications, should_exit \in BOOLEAN :
          LET set == ContextVar_set(app, self)
          IN  /\ app' = set.var
              /\ heap' = Append(heap, [self |-> self, should_exit |-> should_exit,
                                       token |-> set.token, before |-> app])
              /\ call' = [op |-> "main", self |-> self, before |-> app]
    /\ nops' = nops + 1
    /\ ctxUnchanged

\* application.set(value) by other code, such as the main that is running
ApplicationSet ==
    /\ \E value \in Applications :
          /\ value # app
          /\ app' = ContextVar_set(app, value).var
    /\ call' = [op |-> "set", before |-> app]
    /\ UNCHANGED <<heap, nops>>
    /\ ctxUnchanged

\* the main of the innermost run returns or raises: the handlers of run,
\* then finally: application.reset(token)
MainEnds ==
    /\ Len(heap) > 0
    /\ LET frame == heap[Len(heap)]
       IN  /\ \E main \in MainOutcomes :
                 call' = [op |-> "run", self |-> frame.self, event |-> "ok",
                          testing |-> FALSE, before |-> frame.before,
                          main_ran |-> TRUE,
                          out |-> Application_run("ok", main, frame.should_exit, FALSE)]
           /\ app' = ContextVar_reset(app, frame.token)
    /\ heap' = SubSeq(heap, 1, Len(heap) - 1)
    /\ UNCHANGED nops
    /\ ctxUnchanged

NextCtx == RunEarly \/ RunMain \/ ApplicationSet \/ MainEnds

SpecCtx == InitCtx /\ [][NextCtx]_vars

\* the step ends a call of run
RunEnded == call'.op = "run" /\ (nops' = nops + 1 \/ Len(heap') < Len(heap))

\* C29: Application.run makes the application the current one when main
\* starts; when run returns, raises or exits, the variable application holds
\* the value it had when run was called; when the set up fails or ends the
\* application, or in testing mode, main is not called and the variable is
\* not set.
C29_CurrentDuringMain ==
    [][/\ call'.op = "main" => (app' = call'.self /\ call'.before = app)
       /\ RunEnded => app' = call'.before
       /\ (RunEnded /\ (call'.event # "ok" \/ call'.testing))
            => (~call'.main_ran /\ UNCHANGED <<app, heap>>)]_vars

\* a run of B inside the main of A, whose main set the variable to A, has
\* raised, and the variable holds A as before the run of B
C29_Witness ==
    /\ call.op = "run"
    /\ call.main_ran
    /\ call.out.r = "raise"
    /\ call.self = TheApplication("B")
    /\ call.before = TheApplication("A")
    /\ app = TheApplication("A")
    /\ Len(heap) = 1
    /\ heap[1].self = TheApplication("A")
    /\ heap[1].before = NoApplication


----------------------------------------------------------------------------
(* try_dotenv and the flag _loaded *)

MaxDotenvCalls == 3

\* the values of the argument load_dotenv
LoadDotenvValues == {"None", "True", "False"}

\* what a call does: whether it tried to import dotenv, the files it
\* loaded, the flag after the call and the outcome
DotenvStep(loaded, attempted, files, out) ==
    [_loaded |-> loaded, attempted |-> attempted, files |-> files, out |-> out]

\* a try_dotenv that sets the flag only after a file was loaded
try_dotenv_MarksOnLoad(_loaded, load_dotenv, env) ==
    IF load_dotenv = "False" \/ (_loaded /\ load_dotenv = "None")
    THEN DotenvStep(_loaded, FALSE, <<>>, Return(NONE))
    ELSE IF ~env.installed
    THEN DotenvStep(_loaded, TRUE, <<>>,
                    IF load_dotenv = "True" THEN Raise("ModuleNotFoundError", EmptyStr)
                    ELSE Return(NONE))
    ELSE IF ~env.found
    THEN DotenvStep(_loaded, TRUE, <<>>, Return(NONE))
    ELSE DotenvStep(TRUE, TRUE,
                    IF env.local THEN <<".env", ".env.local">> ELSE <<".env">>,
                    Return(NONE))

\* try_dotenv(load_dotenv) with the flag _loaded, in the process
\* environment env: whether dotenv is installed, whether find_dotenv finds a
\* file, and whether the file with the suffix .local exists
try_dotenv(_loaded, load_dotenv, env) ==
    IF load_dotenv = "False" \/ (_loaded /\ load_dotenv = "None")
    THEN DotenvStep(_loaded, FALSE, <<>>, Return(NONE))
    ELSE IF ~env.installed
    THEN DotenvStep(TRUE, TRUE, <<>>,
                    IF load_dotenv = "True" THEN Raise("ModuleNotFoundError", EmptyStr)
                    ELSE Return(NONE))
    ELSE IF ~env.found
    THEN DotenvStep(TRUE, TRUE, <<>>, Return(NONE))
    ELSE DotenvStep(TRUE, TRUE,
                    IF env.local THEN <<".env", ".env.local">> ELSE <<".env">>,
                    Return(NONE))

\* the process: appIn is its environment, app holds the flag _loaded, and
\* heap is the list of the calls made, each with what it did
InitDotenv ==
    /\ appIn \in [installed : BOOLEAN, found : BOOLEAN, local : BOOLEAN]
    /\ app = [_loaded |-> FALSE]
    /\ heap = <<>>
    /\ call = CallIdle
    /\ nops = 0
    /\ alive = {}
    /\ c = <<>>
    /\ helpersRef = <<>>
    /\ typePathRef = <<>>
    /\ type_value = <<>>
    /\ lastSetup = SetupIdle
    /\ mIn = [i \in 1..NTrees |-> EmptyMap]
    /\ mStep = MergeIdle
    /\ mOnce = OnceIdle
    /\ fIn = FindIdle
    /\ fOut = NoResult
    /\ eIn = EnvIdle
    /\ eOut = EnvNoResult

\* try_dotenv(load_dotenv=load_dotenv), as Application.setup_configuration
\* calls it
TryDotenv ==
    /\ nops < MaxDotenvCalls
    /\ \E load_dotenv \in LoadDotenvValues :
          LET r == try_dotenv(app._loaded, load_dotenv, appIn)
          IN  /\ app' = [_loaded |-> r._loaded]
              /\ call' = [op |-> "try_dotenv", load_dotenv |-> load_dotenv,
                          before |-> app._loaded, attempted |-> r.attempted,
                          files |-> r.files, out |-> r.out]
              /\ heap' = Append(heap, [load_dotenv |-> load_dotenv,
                                       before |-> app._loaded,
                                       after |-> r._loaded,
                                       attempted |-> r.attempted,
                                       files |-> r.files])
    /\ nops' = nops + 1
    /\ UNCHANGED <<appIn, alive, c, helpersRef, typePathRef, type_value, lastSetup,
                   mergeVars, findVars, envVars>>

NextDotenv == TryDotenv

SpecDotenv == InitDotenv /\ [][NextDotenv]_vars

\* the calls made with the given argument
CallsWith(load_dotenv) == {i \in 1..Len(heap) : heap[i].load_dotenv = load_dotenv}

\* C30: of the calls of try_dotenv with None at most one attempts the load,
\* and every call with None after the first call with None does nothing,
\* whatever the first one found; a call with False attempts nothing, loads
\* nothing and leaves the flag _loaded as it is; every call with True
\* attempts the load.
C30_DotenvOnce ==
    /\ Cardinality({i \in CallsWith("None") : heap[i].attempted}) <= 1
    /\ \A i \in CallsWith("None"), j \in CallsWith("None") :
          i < j => (~heap[j].attempted /\ heap[j].files = <<>>
                    /\ heap[j].after = heap[j].before)
    /\ \A i \in CallsWith("False") :
          ~heap[i].attempted /\ heap[i].files = <<>> /\ heap[i].after = heap[i].before
    /\ \A i \in CallsWith("True") : heap[i].attempted

\* the first call with None found no dotenv module, a call with False and a
\* second call with None followed
C30_Witness ==
    /\ ~appIn.installed
    /\ Len(heap) = 3
    /\ heap[1].load_dotenv = "None" /\ heap[1].attempted /\ heap[1].files = <<>>
    /\ heap[2].load_dotenv = "False"
    /\ heap[3].load_dotenv = "None" /\ ~heap[3].attempted

====
